---- MODULE Spec2Model ----
(***************************************************************************)
(* Weather CLI: the WeatherAPI client (weather_cli/weather_api.py) and its *)
(* error taxonomy (weather_cli/exceptions.py).                             *)
(*                                                                         *)
(* Strings are sequences of one-character strings, so that strip(),        *)
(* upper() and int() are computed and not assumed.  An optional value      *)
(* (Python None / a missing key) is a sequence of length 0 or 1.           *)
(***************************************************************************)
EXTENDS Integers, Sequences, FiniteSets, TLC

\* ------------------------------------------------------------------ bounds
MaxCityLen == 2
MaxCountryLen == 3
MaxHeaderLen == 2
MaxMatches == 2
MaxKeyLen == 11
MaxSessions == 2
MaxSamples == 2
MaxForecastLen == 3
MaxCalls == 2
MaxDays == 2

\* ------------------------------------------------------ program constants
MAX_RETRIES == 3
RATE_LIMIT_WAIT == 60
DefaultTimeout == 10
MinKeyLen == 10
MaxLat == 90
MaxLon == 180
CountryLen == 2

BASE_URL == "https://api.openweathermap.org/data/2.5"
GEO_URL == "http://api.openweathermap.org/geo/1.0"

\* ------------------------------------------------------------ Python text
None == <<>>
Some(x) == <<x>>

SeqsUpTo(S, n) == UNION {[1..k -> S] : k \in 0..n}

IsSpace(c) == c = " "

RECURSIVE LStrip(_)
LStrip(s) == IF s # <<>> /\ IsSpace(Head(s)) THEN LStrip(Tail(s)) ELSE s

RECURSIVE RStrip(_)
RStrip(s) ==
    IF s # <<>> /\ IsSpace(s[Len(s)]) THEN RStrip(SubSeq(s, 1, Len(s) - 1)) ELSE s

\* str.strip()
Strip(s) == RStrip(LStrip(s))

Lowers == <<"a", "k", "m", "n", "o", "r", "s", "u", "w", "y">>
Uppers == <<"A", "K", "M", "N", "O", "R", "S", "U", "W", "Y">>

UpperChar(c) ==
    IF \E i \in 1..Len(Lowers) : Lowers[i] = c
    THEN Uppers[CHOOSE i \in 1..Len(Lowers) : Lowers[i] = c]
    ELSE c

LowerChar(c) ==
    IF \E i \in 1..Len(Uppers) : Uppers[i] = c
    THEN Lowers[CHOOSE i \in 1..Len(Uppers) : Uppers[i] = c]
    ELSE c

\* str.upper()
Upper(s) == [i \in 1..Len(s) |-> UpperChar(s[i])]

\* str.capitalize(): the first character upper-cased, the others lower-cased
Capitalize(s) ==
    [i \in 1..Len(s) |-> IF i = 1 THEN UpperChar(s[i]) ELSE LowerChar(s[i])]

Digits == <<"0", "1", "2", "3", "4", "5", "6", "7", "8", "9">>

IsDigit(c) == \E i \in 1..Len(Digits) : Digits[i] = c

DigitVal(c) == (CHOOSE i \in 1..Len(Digits) : Digits[i] = c) - 1

RECURSIVE DigitsValue(_)
DigitsValue(s) ==
    IF s = <<>> THEN 0 ELSE 10 * DigitsValue(SubSeq(s, 1, Len(s) - 1)) + DigitVal(s[Len(s)])

\* int(text): surrounding whitespace is ignored, the rest must be digits;
\* None when Python raises ValueError.
ParseInt(s) ==
    LET t == Strip(s) IN
    IF t # <<>> /\ \A i \in 1..Len(t) : IsDigit(t[i]) THEN Some(DigitsValue(t)) ELSE None

\* str(n) for n >= 0
RECURSIVE DecimalText(_)
DecimalText(n) ==
    IF n < 10 THEN <<Digits[n + 1]>> ELSE DecimalText(n \div 10) \o <<Digits[(n % 10) + 1]>>

\* str(n) for any integer
SignedText(n) == IF n < 0 THEN <<"-">> \o DecimalText(-n) ELSE DecimalText(n)

\* s[:n]
Prefix(s, n) == IF Len(s) <= n THEN s ELSE SubSeq(s, 1, n)

\* str(None)
NoneText == <<"N", "o", "n", "e">>

\* ------------------------------------------------------------- input sets
CityChars == {" ", "a"}
CountryChars == {" ", "m"}
HeaderChars == {"5", "x"}

Cities == SeqsUpTo(CityChars, MaxCityLen)
Countries == SeqsUpTo(CountryChars, MaxCountryLen)

\* a Retry-After header: absent, or some text
RetryAfterHeaders == {None} \cup {Some(h) : h \in SeqsUpTo(HeaderChars, MaxHeaderLen)}

KeyOf(n, c) == [i \in 1..n |-> c]
KeyLens == {0, 1, MinKeyLen - 1, MinKeyLen, MaxKeyLen}
\* keys passed as api_key are written with "a", keys of the environment with "e"
ArgKeys == {None} \cup {Some(KeyOf(n, "a")) : n \in KeyLens}
EnvKeys == {None} \cup {Some(KeyOf(n, "e")) : n \in KeyLens}
TimeoutArgs == {None, Some(30)}

Latitudes == {-MaxLat - 1, -MaxLat, 0, MaxLat, MaxLat + 1}
Longitudes == {-MaxLon - 1, -MaxLon, 0, MaxLon, MaxLon + 1}

StatusCodes == {101, 200, 204, 300, 401, 404, 429, 500, 501, 503}

\* ------------------------------------------------------- error taxonomy
\* One record shape for every exception, so that outcomes can be compared.
\* cls is the Python class; fields an exception does not have are None.
Exception(cls, code, message) ==
    [cls |-> cls, error_code |-> code, message |-> message,
     retry_after |-> None, status_code |-> None, endpoint |-> None,
     original_error |-> None, city |-> None, country |-> None]

InvalidAPIKeyError(message) == Exception("InvalidAPIKeyError", "INVALID_API_KEY", message)

CityNotFoundError(city, country) ==
    [Exception("CityNotFoundError", "CITY_NOT_FOUND", "City not found")
        EXCEPT !.city = Some(city), !.country = Some(country)]

APIRequestError(message, original_error, status_code, endpoint) ==
    [Exception("APIRequestError", "API_REQUEST_FAILED", message)
        EXCEPT !.original_error = Some(original_error),
               !.status_code = status_code,
               !.endpoint = Some(endpoint)]

RateLimitError(message, retry_after) ==
    [Exception("RateLimitError", "RATE_LIMIT_EXCEEDED", message)
        EXCEPT !.retry_after = Some(retry_after)]

ServiceUnavailableError(message) ==
    Exception("ServiceUnavailableError", "SERVICE_UNAVAILABLE", message)

\* an exception of Python itself (ValueError, KeyError): no error_code
Builtin(cls, message) == Exception(cls, "", message)

\* the classes of exceptions.py (ERROR_HIERARCHY)
ERROR_HIERARCHY ==
    {"WeatherCLIError", "InvalidAPIKeyError", "CityNotFoundError", "APIRequestError",
     "ConfigurationError", "ValidationError", "RateLimitError", "ServiceUnavailableError"}

Raise(e) == [ok |-> FALSE, error |-> e, value |-> None]
Return(v) == [ok |-> TRUE, error |-> Exception("", "", ""), value |-> Some(v)]

\* ----------------------------------------------------- the HTTP session
\* What one attempt of a request meets at the provider: an HTTP response, or
\* a transport failure.  exc = "" for a response.
NoBody == [json |-> FALSE, data |-> <<>>]

Response(status, header, body) ==
    [exc |-> "", status |-> status, retry_after |-> header, body |-> body]

Failure(exc) == [exc |-> exc, status |-> 0, retry_after |-> None, body |-> NoBody]

TransportFailures == {"ConnectTimeoutError", "ReadTimeoutError", "NewConnectionError"}

\* Retry(status_forcelist=[429, 500, 502, 503, 504], allowed_methods=["GET"])
status_forcelist == {429, 500, 502, 503, 504}

\* urllib3 Retry.is_retry for a response, and Retry.increment for a transport
\* error: every request of the client is a GET, so both are retried.
\* variant: every error status is retried
IsRetry_anyErrorStatus(a) == IF a.exc = "" THEN a.status >= 400 ELSE TRUE

IsRetry(a) == IF a.exc = "" THEN a.status \in status_forcelist ELSE TRUE

\* HTTPAdapter.send: the requests exception raised for the MaxRetryError that
\* ends the last attempt `a`.
Exhausted(a) ==
    CASE a.exc = "" -> "RetryError"
      [] a.exc = "ConnectTimeoutError" -> "ConnectTimeout"
      [] OTHER -> "ConnectionError"

\* what a test double patched over requests.Session.request can do: hand back
\* any response, or raise the exception its side_effect names
PatchedFailures == {"Timeout", "ConnectionError"}

\* requests exception classes that are subclasses of requests.exceptions.Timeout
IsTimeout(exc) == exc \in {"Timeout", "ConnectTimeout", "ReadTimeout"}

\* ... and of requests.exceptions.ConnectionError
IsConnectionError(exc) == exc \in {"ConnectionError", "ConnectTimeout"}

\* Response.raise_for_status raises HTTPError for 4xx and 5xx only
RaisesForStatus(status) == 400 <= status /\ status < 600

\* int(response.headers.get('Retry-After', self.RATE_LIMIT_WAIT))
\* variant: the Retry-After header is not read, the default wait always used
RetryAfterSeconds_ignoresHeader(header) == Some(RATE_LIMIT_WAIT)

RetryAfterSeconds(header) ==
    IF header = None THEN Some(RATE_LIMIT_WAIT) ELSE ParseInt(header[1])

IsServerError(status) == status >= 500

\* WeatherAPI._make_request, given what self.session.request did
make_request(reply, url) ==
    IF reply.exc # ""
    THEN IF IsTimeout(reply.exc)
         THEN Raise(APIRequestError("Request timeout - weather service is not responding",
                                    reply.exc, None, url))
         ELSE IF IsConnectionError(reply.exc)
         THEN Raise(APIRequestError(
                  "Cannot connect to weather service - check internet connection",
                  reply.exc, None, url))
         ELSE Raise(APIRequestError("Weather service request failed", reply.exc, None, url))
    ELSE IF reply.status = 429
    THEN IF RetryAfterSeconds(reply.retry_after) = None
         THEN Raise(Builtin("ValueError", "invalid literal for int() with base 10"))
         ELSE Raise(RateLimitError("API rate limit exceeded. Please retry after N seconds.",
                                   RetryAfterSeconds(reply.retry_after)[1]))
    ELSE IF IsServerError(reply.status)
    THEN Raise(ServiceUnavailableError("Weather service is temporarily unavailable"))
    ELSE IF reply.status = 401
    THEN Raise(InvalidAPIKeyError("Invalid API key provided"))
    ELSE IF RaisesForStatus(reply.status)
    THEN Raise(APIRequestError("Weather service request failed", "HTTPError", None, url))
    ELSE Return(reply)

\* --------------------------------------------------------- provider data
\* one geocoding match: 'lat' and 'lon' may be missing
Matches ==
    {[lat |-> Some(3), lon |-> Some(101)], [lat |-> Some(4), lon |-> Some(102)],
     [lat |-> None, lon |-> Some(101)], [lat |-> Some(3), lon |-> None]}

Json(data) == [json |-> TRUE, data |-> data]

GeoBodies == {NoBody} \cup {Json(ms) : ms \in SeqsUpTo(Matches, MaxMatches)}

\* ------------------------------------------------------------------ state
VARIABLES
    environ,      \* os.environ's OPENWEATHER_API_KEY: None or Some(key)
    patched,      \* requests.Session.request is replaced by a test double
    client,       \* None, or Some of the WeatherAPI object of the last construction
    sessions,     \* number of requests.Session objects created so far
    pc,           \* "ready": no call in progress; "sending": inside session.request;
                  \* "done": the call has ended with `outcome`
    call,         \* the public call in progress or last made: [op, args]
    request,      \* the session.request call in progress
    attempts,     \* attempts sent to the provider for `request`
    provider,     \* the provider's answers to those attempts: the last one, and
                  \* whether all were the same
    sent,         \* the session.request calls made by `call`, in order
    reply,        \* what session.request last handed back (or raised)
    current_data, \* get_weather_data's local: the current-conditions JSON
    outcome,      \* result of the last finished public call
    forecast_data,  \* the sample list a caller hands to _process_forecast itself
    clock,          \* datetime.now().date() for those calls, as a day number
    calls,          \* number of those calls so far
    daily_forecast, \* what the last of them returned (or raised)
    log,            \* the records the client's operation in progress (or last
                    \* made) has handed to the loggers, in order
    formatter,      \* None, or Some of the WeatherFormatter last constructed
    formatted,      \* what the last operation on the formatter returned (or raised)
    run             \* the run of the command line: its options, its place in
                    \* main(), what it has echoed, its exit code

\* the state of the direct calls of _process_forecast
aggregation == <<forecast_data, clock, calls, daily_forecast>>

\* the state of the formatter and of the command line
frontend == <<formatter, formatted, run>>

vars == <<environ, patched, client, sessions, pc, call, request, attempts, provider,
          sent, reply, current_data, outcome, aggregation, log, frontend>>

NoCall == [op |-> "", args |-> <<>>]
NoRequest ==
    [session |-> 0, method |-> "", url |-> "", params |-> <<>>, timeout |-> 0, retries |-> 0]
NoReply == Failure("")
NoAttempt == [last |-> <<"", 0>>, uniform |-> TRUE]
NoOutcome == [ok |-> TRUE, error |-> Exception("", "", ""), value |-> None]
NoOptions ==
    [city |-> <<>>, country |-> <<>>, units |-> "", debug |-> FALSE, api_key |-> None,
     timeout |-> 0, output_format |-> ""]
NoRun ==
    [pc |-> "", options |-> NoOptions, called |-> <<>>, echoed |-> <<>>,
     failure |-> None, interrupted |-> FALSE, coordinates |-> None,
     weather_data |-> None, exit_code |-> None]

\* ---------------------------------------------------------------- logging
\* One record of a logger: the level, the text of the message with {} where a
\* value of the caller is rendered, and those values as str() renders them.
Rec(level, msg, args) == [level |-> level, msg |-> msg, args |-> args]

\* what the constructors of exceptions.py log when the error e is made; the
\* client never passes api_key to InvalidAPIKeyError, so "None" is logged as
\* the key provided
RaisedLog(e) ==
    CASE e.cls = "InvalidAPIKeyError" ->
            <<Rec("ERROR", "API Key Error - Provided key: {}", <<NoneText>>),
              Rec("ERROR", e.message, <<>>)>>
      [] e.cls = "CityNotFoundError" ->
            <<Rec("ERROR", "City Search Failed - City: {}, Country: {}",
                  <<e.city[1], e.country[1]>>),
              Rec("ERROR", e.message, <<>>)>>
      [] e.cls = "APIRequestError" ->
            <<Rec("ERROR", "API Request Failed - " \o e.message, <<>>),
              Rec("DEBUG", "Original error: " \o e.original_error[1], <<>>),
              Rec("ERROR", e.message, <<>>)>>
      [] e.cls \in {"RateLimitError", "ServiceUnavailableError"} ->
            <<Rec("ERROR", e.message, <<>>)>>
      [] OTHER -> <<>>

\* ---------------------------------------------------- WeatherAPI.__init__
\* `api_key or os.getenv("OPENWEATHER_API_KEY")`: an empty string is falsy
EffectiveKey(api_key, env) ==
    IF api_key # None /\ api_key[1] # <<>> THEN api_key ELSE env

\* `if not self.api_key`
KeyMissing(key) == key = None \/ key[1] = <<>>

\* `if len(self.api_key) < 10`
\* variant: a key of exactly the minimum length is refused as well
KeyTooShort_inclusive(key) == Len(key[1]) <= MinKeyLen

KeyTooShort(key) == Len(key[1]) < MinKeyLen

\* timeout: int = 10
TimeoutOf(timeout) == IF timeout = None THEN DefaultTimeout ELSE timeout[1]

\* WeatherAPI(api_key, timeout) with `env` in the environment; the object made
\* holds the session that _create_session returns, here the session's number
\* variant: every client is given the first session
NewClient_sharedSession(api_key, timeout, env, session) ==
    LET key == EffectiveKey(api_key, env) IN
    IF KeyMissing(key)
    THEN Raise(InvalidAPIKeyError("API key is required"))
    ELSE IF KeyTooShort(key)
    THEN Raise(InvalidAPIKeyError("API key appears to be invalid format"))
    ELSE Return([api_key |-> key[1], timeout |-> TimeoutOf(timeout), session |-> 1])

NewClient(api_key, timeout, env, session) ==
    LET key == EffectiveKey(api_key, env) IN
    IF KeyMissing(key)
    THEN Raise(InvalidAPIKeyError("API key is required"))
    ELSE IF KeyTooShort(key)
    THEN Raise(InvalidAPIKeyError("API key appears to be invalid format"))
    ELSE Return([api_key |-> key[1], timeout |-> TimeoutOf(timeout), session |-> session])

\* the records of a constructor call
InitLog(api_key, env) ==
    LET key == EffectiveKey(api_key, env) IN
    <<Rec("DEBUG", "Initializing WeatherAPI client", <<>>)>>
    \o IF KeyMissing(key)
       THEN <<Rec("ERROR", "No API key provided or found in environment", <<>>)>>
            \o RaisedLog(InvalidAPIKeyError("API key is required"))
       ELSE IF KeyTooShort(key)
       THEN <<Rec("ERROR", "Invalid API key format: {}...", <<Prefix(key[1], 5)>>)>>
            \o RaisedLog(InvalidAPIKeyError("API key appears to be invalid format"))
       ELSE <<Rec("INFO", "WeatherAPI initialized with key: {}...", <<Prefix(key[1], 8)>>),
              Rec("DEBUG", "HTTP session created with retry logic", <<>>)>>

\* WeatherAPI.__repr__: f"WeatherAPI(key='{self.api_key[:8]}...', timeout={self.timeout})"
Repr(self) ==
    Rec("", "WeatherAPI(key='{}...', timeout={})",
        <<Prefix(self.api_key, 8), DecimalText(self.timeout)>>)

Construct(api_key, timeout) ==
    /\ pc = "ready"
    /\ sessions < MaxSessions
    /\ call' = [op |-> "__init__", args |-> [api_key |-> api_key, timeout |-> timeout]]
    /\ outcome' = NewClient(api_key, timeout, environ, sessions + 1)
    /\ log' = InitLog(api_key, environ)
    /\ IF outcome'.ok
       THEN /\ client' = outcome'.value
            /\ sessions' = sessions + 1
       ELSE UNCHANGED <<client, sessions>>
    /\ pc' = "done"
    /\ UNCHANGED <<aggregation, frontend, environ, patched, request, attempts, provider, sent, reply,
                   current_data>>

\* a public call returns (or raises) to its caller: its locals are gone
Returned ==
    /\ pc = "done"
    /\ pc' = "ready"
    /\ call' = NoCall
    /\ request' = NoRequest
    /\ attempts' = 0
    /\ provider' = NoAttempt
    /\ sent' = <<>>
    /\ reply' = NoReply
    /\ current_data' = None
    /\ outcome' = NoOutcome
    /\ log' = <<>>
    /\ UNCHANGED <<aggregation, frontend, environ, patched, client, sessions>>

\* ---------------------------------------------- WeatherAPI.get_coordinates
\* `if not city or not city.strip()`
CityInvalid(city) == city = <<>> \/ Strip(city) = <<>>

\* `if not country or len(country) != 2`
\* variant: only a country code longer than two characters is refused
CountryInvalid_onlyLonger(country) == country = <<>> \/ Len(country) > CountryLen

CountryInvalid(country) == country = <<>> \/ Len(country) # CountryLen

\* f"{city.strip()},{country.upper().strip()}"
GeoQuery(city, country) == Strip(city) \o <<",">> \o Strip(Upper(country))

GeoRequest(city, country) ==
    [session |-> client[1].session, method |-> "GET", url |-> GEO_URL \o "/direct",
     params |-> [q |-> GeoQuery(city, country), limit |-> 1, appid |-> client[1].api_key],
     timeout |-> client[1].timeout, retries |-> MAX_RETRIES]

\* the records of get_coordinates up to its call of session.request; the
\* f-string renders the whole params mapping
CoordinatesLog(self, city, country) ==
    <<Rec("INFO", "Finding coordinates for {}, {}", <<city, country>>)>>
    \o IF CityInvalid(city) \/ CountryInvalid(country) THEN <<>>
       ELSE <<Rec("DEBUG", "Geocoding request: {'q': {}, 'limit': {}, 'appid': {}}",
                  <<GeoQuery(city, country), DecimalText(1), self.api_key>>),
              Rec("DEBUG", "Making GET request to " \o GEO_URL \o "/direct", <<>>)>>

get_coordinates(city, country) ==
    /\ pc = "ready"
    /\ client # None
    /\ log' = CoordinatesLog(client[1], city, country)
    /\ call' = [op |-> "get_coordinates", args |-> [city |-> city, country |-> country]]
    /\ IF CityInvalid(city)
       THEN /\ outcome' = Raise(Builtin("ValueError", "City name cannot be empty"))
            /\ sent' = <<>>
            /\ request' = NoRequest
            /\ pc' = "done"
       ELSE IF CountryInvalid(country)
       THEN /\ outcome' = Raise(Builtin("ValueError", "Country must be 2-letter code"))
            /\ sent' = <<>>
            /\ request' = NoRequest
            /\ pc' = "done"
       ELSE /\ request' = GeoRequest(city, country)
            /\ sent' = <<GeoRequest(city, country)>>
            /\ pc' = "sending"
            /\ outcome' = NoOutcome
    /\ attempts' = 0
    /\ provider' = NoAttempt
    /\ reply' = NoReply
    /\ current_data' = None
    /\ UNCHANGED <<aggregation, frontend, environ, patched, client, sessions>>

\* response.json() on a body that is not JSON: requests >= 2.27 raises its own
\* JSONDecodeError, a RequestException; older releases allowed by setup.py
\* (requests >= 2.25.0) raise the json module's error, a ValueError.
JsonError(modern, message, endpoint) ==
    IF modern
    THEN Raise(APIRequestError(message, "JSONDecodeError", None, endpoint))
    ELSE Raise(Builtin("JSONDecodeError", "Expecting value"))

\* get_coordinates from the return of session.request on
\* variant: the error reports the city and country as sent in the query
CoordinatesResult_normalized(r, city, country, modern) ==
    LET response == make_request(r, GEO_URL \o "/direct") IN
    IF ~response.ok THEN response
    ELSE IF ~r.body.json
    THEN JsonError(modern, "Failed to find coordinates", "geocoding")
    ELSE IF r.body.data = <<>>
    THEN Raise(CityNotFoundError(Strip(city), Strip(Upper(country))))
    ELSE IF r.body.data[1].lat = None THEN Raise(Builtin("KeyError", "lat"))
    ELSE IF r.body.data[1].lon = None THEN Raise(Builtin("KeyError", "lon"))
    ELSE Return(<<r.body.data[1].lat[1], r.body.data[1].lon[1]>>)

CoordinatesResult(r, city, country, modern) ==
    LET response == make_request(r, GEO_URL \o "/direct") IN
    IF ~response.ok THEN response
    ELSE IF ~r.body.json
    THEN JsonError(modern, "Failed to find coordinates", "geocoding")
    ELSE IF r.body.data = <<>>
    THEN Raise(CityNotFoundError(city, country))
    ELSE IF r.body.data[1].lat = None THEN Raise(Builtin("KeyError", "lat"))
    ELSE IF r.body.data[1].lon = None THEN Raise(Builtin("KeyError", "lon"))
    ELSE Return(<<r.body.data[1].lat[1], r.body.data[1].lon[1]>>)

\* ------------------------------------------- WeatherAPI._process_forecast
\* The date words that occur in dt_txt (its part before the first space), in
\* the order Python compares the strings.  "2024-1-17" is accepted by
\* strptime('%Y-%m-%d') but sorts after every zero-padded date of the year;
\* "soon" is no date.
DateWords == <<"2024-01-15", "2024-01-16", "2024-01-17", "2024-01-18", "2024-01-19",
               "2024-01-20", "2024-1-17", "soon">>

\* position of a date word in the order of sorted()
SortRank(word) == CHOOSE i \in 1..Len(DateWords) : DateWords[i] = word

\* datetime.strptime(word, '%Y-%m-%d').date() as a day number (day of January
\* 2024); None for ValueError
Strptime(word) ==
    CASE word = "2024-01-15" -> Some(15)
      [] word = "2024-01-16" -> Some(16)
      [] word = "2024-01-17" -> Some(17)
      [] word = "2024-01-18" -> Some(18)
      [] word = "2024-01-19" -> Some(19)
      [] word = "2024-01-20" -> Some(20)
      [] word = "2024-1-17" -> Some(17)
      [] OTHER -> None

\* datetime.now().date(), as a day number
Todays == {15, 16}

FORECAST_DAYS == 3

\* A temperature field of a sample is missing (None), a JSON number n in
\* hundredths of a degree (Some(n)), or a JSON string (Quoted).
Quoted == <<"x", "x">>

IsNumber(field) == Len(field) = 1

Min(a, b) == IF a <= b THEN a ELSE b
Max(a, b) == IF a >= b THEN a ELSE b

\* round(x, 1) on a temperature held in hundredths of a degree (round half
\* to even, as Python rounds); the result is in hundredths too
Round1(x) ==
    LET q == x \div 10
        r == x % 10
    IN  IF r < 5 THEN 10 * q
        ELSE IF r > 5 THEN 10 * (q + 1)
        ELSE IF q % 2 = 0 THEN 10 * q ELSE 10 * (q + 1)

unknown == <<"u", "n", "k", "n", "o", "w", "n">>

\* `temp_min = temp` when temp_min is missing and temp is not
\* variant: the point temperature never stands in for a missing minimum
MinContribution_explicitOnly(item) == item.temp_min

MinContribution(item) ==
    IF item.temp_min = None /\ item.temp # None THEN item.temp ELSE item.temp_min

MaxContribution(item) ==
    IF item.temp_max = None /\ item.temp # None THEN item.temp ELSE item.temp_max

\* `weather_list[0]` raises KeyError when 'weather' holds an object that is
\* not empty in place of the list
DescriptionRaises(item) == ~item.weather_is_list /\ item.weather # <<>>

\* weather_list[0].get('description', 'unknown') if weather_list else 'unknown'
Description(item) ==
    IF item.weather = <<>> THEN unknown
    ELSE IF item.weather[1] = None THEN unknown ELSE item.weather[1][1]

\* min(running, contribution) and max(...) raise TypeError for a number and a
\* string; two strings are compared as strings
MergeRaises(running, contribution) ==
    contribution # None /\ running # None /\ IsNumber(running) # IsNumber(contribution)

\* the running minimum after one more sample of the date
MergeMin(running, contribution) ==
    IF contribution # None /\ running # None
    THEN IF IsNumber(running) THEN Some(Min(running[1], contribution[1])) ELSE Quoted
    ELSE IF contribution # None THEN contribution ELSE running

MergeMax(running, contribution) ==
    IF contribution # None /\ running # None
    THEN IF IsNumber(running) THEN Some(Max(running[1], contribution[1])) ELSE Quoted
    ELSE IF contribution # None THEN contribution ELSE running

\* variant: the description of the date follows the latest sample
AddSample_lastSeen(daily_data, item) ==
    IF item.dt_txt = <<>> THEN daily_data
    ELSE IF DescriptionRaises(item) THEN daily_data
    ELSE LET date == item.dt_txt[1] IN
         [d \in DOMAIN daily_data \cup {date} |->
             IF d # date THEN daily_data[d]
             ELSE IF date \notin DOMAIN daily_data
             THEN [temp_min |-> MinContribution(item),
                   temp_max |-> MaxContribution(item),
                   weather |-> Description(item)]
             ELSE [temp_min |-> daily_data[d].temp_min,
                   temp_max |-> daily_data[d].temp_max,
                   weather |-> Description(item)]]

\* one pass of the first loop: daily_data after `item`
AddSample(daily_data, item) ==
    IF item.dt_txt = <<>> THEN daily_data
    ELSE IF DescriptionRaises(item) THEN daily_data
    ELSE LET date == item.dt_txt[1] IN
         IF date \notin DOMAIN daily_data
         THEN [d \in DOMAIN daily_data \cup {date} |->
                  IF d = date
                  THEN [temp_min |-> MinContribution(item),
                        temp_max |-> MaxContribution(item),
                        weather |-> Description(item)]
                  ELSE daily_data[d]]
         ELSE IF MergeRaises(daily_data[date].temp_min, MinContribution(item))
         THEN daily_data
         ELSE LET merged == [daily_data EXCEPT
                                ![date].temp_min = MergeMin(@, MinContribution(item))]
              IN  IF MergeRaises(daily_data[date].temp_max, MaxContribution(item))
                  THEN merged
                  ELSE [merged EXCEPT
                           ![date].temp_max = MergeMax(@, MaxContribution(item))]

RECURSIVE GroupByDate(_, _)
GroupByDate(daily_data, items) ==
    IF items = <<>> THEN daily_data
    ELSE GroupByDate(AddSample(daily_data, Head(items)), Tail(items))

\* sorted(daily_data.items()): the dates in ascending string order
RECURSIVE SortedDates(_)
SortedDates(dates) ==
    IF dates = {} THEN <<>>
    ELSE LET first == CHOOSE d \in dates : \A e \in dates : SortRank(d) <= SortRank(e)
         IN  <<first>> \o SortedDates(dates \ {first})

\* `if date_obj > today`
\* variant: the entry of today is emitted as well
IsFuture_orToday(day, today) == day >= today

IsFuture(day, today) == day > today

\* round(data['temp_min'], 1) raises TypeError for a string
RoundRaises(data) ==
    \/ data.temp_min # None /\ ~IsNumber(data.temp_min)
    \/ data.temp_max # None /\ ~IsNumber(data.temp_max)

DailyEntry(date, data) ==
    [date |-> date,
     temp_min |-> IF data.temp_min # None THEN Some(Round1(data.temp_min[1])) ELSE None,
     temp_max |-> IF data.temp_max # None THEN Some(Round1(data.temp_max[1])) ELSE None,
     weather |-> Capitalize(data.weather)]

\* the second loop, over the sorted dates still to visit
RECURSIVE EmitDays(_, _, _, _)
EmitDays(result, dates, daily_data, today) ==
    IF dates = <<>> THEN Return(result)
    ELSE LET date == Head(dates)
             day == Strptime(date)
         IN  IF day = None
             THEN EmitDays(result, Tail(dates), daily_data, today)
             ELSE IF IsFuture(day[1], today) /\ RoundRaises(daily_data[date])
             THEN Raise(Builtin("TypeError", "type str doesn't define __round__ method"))
             ELSE LET next == IF IsFuture(day[1], today)
                              THEN Append(result, DailyEntry(date, daily_data[date]))
                              ELSE result
                  IN  IF Len(next) >= FORECAST_DAYS THEN Return(next)
                      ELSE EmitDays(next, Tail(dates), daily_data, today)

EmptyDaily == [d \in {} |-> <<>>]

\* variant: the client keeps the days it has emitted and emits none again
process_forecast_onlyOnce(data, today) ==
    IF data.list = <<>> \/ calls > 0 THEN Return(<<>>)
    ELSE LET daily_data == GroupByDate(EmptyDaily, data.list)
         IN  EmitDays(<<>>, SortedDates(DOMAIN daily_data), daily_data, today)

\* the return value, or the exception that escapes
process_forecast(data, today) ==
    IF data.list = <<>> THEN Return(<<>>)
    ELSE LET daily_data == GroupByDate(EmptyDaily, data.list)
         IN  EmitDays(<<>>, SortedDates(DOMAIN daily_data), daily_data, today)

\* forecast samples the provider sends in the runs of the client
Rain == <<"r", "a", "Y">>
Sun == <<"s", "u", "n">>
MainSamples ==
    {[dt_txt |-> <<"2024-01-16", "12:00:00">>, temp |-> Some(2850),
      temp_min |-> Some(2500), temp_max |-> Some(3000), weather |-> <<Some(Rain)>>,
      weather_is_list |-> TRUE],
     [dt_txt |-> <<"2024-01-17", "15:00:00">>, temp |-> Some(2700),
      temp_min |-> None, temp_max |-> None, weather |-> <<>>, weather_is_list |-> TRUE],
     [dt_txt |-> <<>>, temp |-> None, temp_min |-> None, temp_max |-> None,
      weather |-> <<None>>, weather_is_list |-> TRUE]}

ForecastBodies ==
    {NoBody} \cup {Json([list |-> l]) : l \in SeqsUpTo(MainSamples, MaxSamples)}

\* The current-conditions mapping of the provider, by its fields that are
\* read: main.temp (missing, a number in hundredths of a degree, or a string),
\* the weather list (as in a forecast sample), main.humidity, wind.speed (in
\* hundredths of a metre per second), main.pressure, name and sys.country.
CurrentWeather(temp, weather, humidity, speed, pressure, name, country) ==
    [temp |-> temp, weather |-> weather, weather_is_list |-> TRUE, humidity |-> humidity,
     speed |-> speed, pressure |-> pressure, name |-> name, country |-> country]

\* the mapping {}
EmptyMapping == CurrentWeather(None, <<>>, None, None, None, None, None)

CurrentBodies ==
    {NoBody,
     Json(CurrentWeather(Some(2850), <<Some(Rain)>>, None, None, None, None, None)),
     Json(EmptyMapping)}

\* -------------------------------------------- WeatherAPI.get_weather_data
\* `if not -90 <= lat <= 90`
\* variant: the two bounds of the latitude are refused as well
LatInvalid_exclusive(lat) == ~(-MaxLat < lat /\ lat < MaxLat)

LatInvalid(lat) == ~(-MaxLat <= lat /\ lat <= MaxLat)

\* `if not -180 <= lon <= 180`
LonInvalid(lon) == ~(-MaxLon <= lon /\ lon <= MaxLon)

\* variant: the forecast is asked for in the provider's default units
WeatherRequest_forecastUnits(path, lat, lon) ==
    [session |-> client[1].session, method |-> "GET", url |-> BASE_URL \o path,
     params |-> [lat |-> lat, lon |-> lon, appid |-> client[1].api_key,
                 units |-> IF path = "/forecast" THEN "standard" ELSE "metric",
                 lang |-> "en"],
     timeout |-> client[1].timeout, retries |-> MAX_RETRIES]

WeatherRequest(path, lat, lon) ==
    [session |-> client[1].session, method |-> "GET", url |-> BASE_URL \o path,
     params |-> [lat |-> lat, lon |-> lon, appid |-> client[1].api_key,
                 units |-> "metric", lang |-> "en"],
     timeout |-> client[1].timeout, retries |-> MAX_RETRIES]

\* the records of get_weather_data up to its first call of session.request
WeatherLog(lat, lon) ==
    <<Rec("INFO", "Fetching weather data for coordinates {}, {}",
          <<SignedText(lat), SignedText(lon)>>)>>
    \o IF LatInvalid(lat) \/ LonInvalid(lon) THEN <<>>
       ELSE <<Rec("DEBUG", "Fetching current weather...", <<>>),
              Rec("DEBUG", "Making GET request to " \o BASE_URL \o "/weather", <<>>)>>

get_weather_data(lat, lon) ==
    /\ pc = "ready"
    /\ client # None
    /\ log' = WeatherLog(lat, lon)
    /\ call' = [op |-> "get_weather_data", args |-> [lat |-> lat, lon |-> lon]]
    /\ IF LatInvalid(lat)
       THEN /\ outcome' = Raise(Builtin("ValueError", "Invalid latitude"))
            /\ sent' = <<>>
            /\ request' = NoRequest
            /\ pc' = "done"
       ELSE IF LonInvalid(lon)
       THEN /\ outcome' = Raise(Builtin("ValueError", "Invalid longitude"))
            /\ sent' = <<>>
            /\ request' = NoRequest
            /\ pc' = "done"
       ELSE /\ request' = WeatherRequest("/weather", lat, lon)
            /\ sent' = <<WeatherRequest("/weather", lat, lon)>>
            /\ pc' = "sending"
            /\ outcome' = NoOutcome
    /\ attempts' = 0
    /\ provider' = NoAttempt
    /\ reply' = NoReply
    /\ current_data' = None
    /\ UNCHANGED <<aggregation, frontend, environ, patched, client, sessions>>

\* get_weather_data from the return of the forecast request on (the report's
\* fetched_at, a clock reading, is left out)
WeatherResult(r, current, modern, today) ==
    LET response == make_request(r, BASE_URL \o "/forecast") IN
    IF ~response.ok THEN response
    ELSE IF ~r.body.json
    THEN JsonError(modern, "Failed to fetch weather data", "weather")
    ELSE LET daily == process_forecast(r.body.data, today) IN
         IF ~daily.ok THEN daily
         ELSE Return([current |-> current, forecast |-> daily.value[1]])

\* ------------------------------------- the calls resume after the request
\* session.request has handed back (or raised) r: the public call runs on to
\* its end, or to its next request
\* the record of _make_request once session.request has handed back (or
\* raised) r for the request `req`.  str(e) of the HTTPError that
\* raise_for_status raises, and of the RetryError of a session out of retries,
\* names the URL requested, its query string with the appid included.
MakeRequestLog(r, req) ==
    IF r.exc # ""
    THEN IF IsTimeout(r.exc)
         THEN <<Rec("ERROR", "Request timeout after {}s", <<DecimalText(req.timeout)>>)>>
         ELSE IF IsConnectionError(r.exc)
         THEN <<Rec("ERROR", "Connection error - check internet connection", <<>>)>>
         ELSE <<Rec("ERROR", "Request failed: ... url: ...appid={}", <<req.params.appid>>)>>
    ELSE IF r.status = 429
    THEN IF RetryAfterSeconds(r.retry_after) = None THEN <<>>
         ELSE <<Rec("WARNING", "Rate limited, retry after {} seconds",
                    <<DecimalText(RetryAfterSeconds(r.retry_after)[1])>>)>>
    ELSE IF IsServerError(r.status)
    THEN <<Rec("ERROR", "Service unavailable: {}", <<DecimalText(r.status)>>)>>
    ELSE IF r.status = 401
    THEN <<Rec("ERROR", "Authentication failed - invalid API key", <<>>)>>
    ELSE IF RaisesForStatus(r.status)
    THEN <<Rec("ERROR", "Request failed: {} Client Error for url: ...appid={}",
               <<DecimalText(r.status), req.params.appid>>)>>
    ELSE <<Rec("DEBUG", "Request successful: {}", <<DecimalText(r.status)>>)>>

\* the records from the return of session.request to the end of the public
\* call, which ends with `result`; the records that render the provider's
\* data alone are written without values
ResumeLog(r, req, result) ==
    MakeRequestLog(r, req)
    \o (IF result.ok /\ call.op = "get_coordinates"
        THEN <<Rec("DEBUG", "Geocoding response: ...", <<>>),
               Rec("INFO", "Found {}, {} at ...",
                   <<call.args.city, call.args.country>>)>>
        ELSE IF result.ok
        THEN <<Rec("DEBUG", "Forecast items count: ...", <<>>),
               Rec("INFO", "Processed {} days of forecast",
                   <<DecimalText(Len(result.value[1].forecast))>>),
               Rec("INFO", "Weather data fetched successfully", <<>>)>>
        ELSE IF result.error.cls = "CityNotFoundError"
        THEN <<Rec("DEBUG", "Geocoding response: ...", <<>>),
               Rec("WARNING", "City not found: {}, {}",
                   <<call.args.city, call.args.country>>)>>
        ELSE <<>>)
    \o (IF result.ok THEN <<>> ELSE RaisedLog(result.error))

Resume(r, modern, today) ==
    /\ reply' = r
    /\ IF call.op = "get_coordinates"
       THEN /\ outcome' = CoordinatesResult(r, call.args.city, call.args.country, modern)
            /\ pc' = "done"
            /\ log' = log \o ResumeLog(r, request, outcome')
            /\ UNCHANGED <<request, sent, current_data>>
       ELSE IF request.url = BASE_URL \o "/weather"
       THEN LET response == make_request(r, request.url) IN
            IF ~response.ok
            THEN /\ outcome' = response
                 /\ pc' = "done"
                 /\ log' = log \o ResumeLog(r, request, outcome')
                 /\ UNCHANGED <<request, sent, current_data>>
            ELSE IF ~r.body.json
            THEN /\ outcome' = JsonError(modern, "Failed to fetch weather data", "weather")
                 /\ pc' = "done"
                 /\ log' = log \o ResumeLog(r, request, outcome')
                 /\ UNCHANGED <<request, sent, current_data>>
            ELSE /\ current_data' = Some(r.body.data)
                 /\ request' = WeatherRequest("/forecast", call.args.lat, call.args.lon)
                 /\ sent' = Append(sent,
                                   WeatherRequest("/forecast", call.args.lat, call.args.lon))
                 /\ log' = log \o MakeRequestLog(r, request)
                              \o <<Rec("DEBUG", "Current weather keys: ...", <<>>),
                                   Rec("DEBUG", "Fetching forecast data...", <<>>),
                                   Rec("DEBUG", "Making GET request to " \o BASE_URL
                                                    \o "/forecast", <<>>)>>
                 /\ UNCHANGED <<pc, outcome>>
       ELSE /\ outcome' = WeatherResult(r, current_data[1], modern, today)
            /\ pc' = "done"
            /\ log' = log \o ResumeLog(r, request, outcome')
            /\ UNCHANGED <<request, sent, current_data>>
    /\ UNCHANGED <<aggregation, frontend, environ, patched, client, sessions, call>>

\* what the provider did at an attempt, without the payload
Code(a) == <<a.exc, a.status>>

\* the record of the provider's answers after it answered one more attempt with a
Answered(a) ==
    [last |-> Code(a),
     uniform |-> provider.uniform /\ (attempts = 0 \/ provider.last = Code(a))]

\* the attempt counters after the answer a: a request that follows starts afresh
Counted(a) ==
    IF pc' = "sending"
    THEN attempts' = 0 /\ provider' = NoAttempt
    ELSE attempts' = attempts + 1 /\ provider' = Answered(a)

\* ---------------------------------------------------- the provider's side
BodiesFor(url) ==
    IF url = GEO_URL \o "/direct" THEN GeoBodies
    ELSE IF url = BASE_URL \o "/weather" THEN CurrentBodies
    ELSE ForecastBodies

\* statuses whose response carries a body (200 OK, 300 Multiple Choices)
WithBody == {200, 300}

\* the responses the provider can give to one attempt of a request; only a 429
\* has a Retry-After header
Responses(url) ==
    {Response(s, h, b) :
        s \in StatusCodes \ (WithBody \cup {429}), h \in {None}, b \in {NoBody}}
    \cup {Response(429, h, NoBody) : h \in RetryAfterHeaders}
    \cup {Response(s, None, b) : s \in WithBody, b \in BodiesFor(url)}

\* what one attempt can meet
Attempts(url) == Responses(url) \cup {Failure(e) : e \in TransportFailures}

\* The installed requests release raises its own JSONDecodeError (modern) or
\* not; the choice shows only when a body that is not JSON is read.
Builds(r) == IF r.exc = "" /\ ~r.body.json THEN BOOLEAN ELSE {TRUE}

\* datetime.now().date() when the forecast is processed; the choice shows only
\* when there are samples
Clock(r) ==
    IF r.exc = "" /\ r.body.json /\ request.url = BASE_URL \o "/forecast"
    THEN Todays
    ELSE {CHOOSE d \in Todays : TRUE}

\* the session's adapter retries the attempt (urllib3 Retry.increment)
SessionRetry ==
    /\ pc = "sending"
    /\ ~patched
    /\ request.retries > 0
    /\ \E a \in Attempts(request.url) :
          /\ IsRetry(a)
          /\ provider' = Answered(a)
    /\ request' = [request EXCEPT !.retries = @ - 1]
    /\ attempts' = attempts + 1
    /\ UNCHANGED <<aggregation, frontend, environ, patched, client, sessions, pc, call, sent,
                   reply, current_data, outcome, log>>

\* the retries are used up: MaxRetryError, raised on as a requests exception
SessionGiveUp ==
    /\ pc = "sending"
    /\ ~patched
    /\ request.retries = 0
    /\ \E a \in Attempts(request.url) :
          /\ IsRetry(a)
          /\ \E modern \in Builds(Failure(Exhausted(a))), today \in Clock(Failure(Exhausted(a))) :
                Resume(Failure(Exhausted(a)), modern, today)
          /\ Counted(a)

\* a response that is not retried is handed back
SessionResponse ==
    /\ pc = "sending"
    /\ ~patched
    /\ \E a \in Responses(request.url) :
          /\ ~IsRetry(a)
          /\ \E modern \in Builds(a), today \in Clock(a) : Resume(a, modern, today)
          /\ Counted(a)

\* a test double patched over requests.Session.request
PatchedRequest ==
    /\ pc = "sending"
    /\ patched
    /\ \E a \in Responses(request.url) \cup {Failure(e) : e \in PatchedFailures} :
          /\ \E modern \in Builds(a), today \in Clock(a) : Resume(a, modern, today)
          /\ Counted(a)

\* -------------------------------------------------------- WeatherFormatter
Celsius == "°C"
Fahrenheit == "°F"

UnitSystems == {"metric", "imperial"}

\* WeatherFormatter(units): the object made; nothing is checked
NewFormatter(units) ==
    [units |-> units, temp_unit |-> IF units = "metric" THEN Celsius ELSE Fahrenheit]

\* set_units: the formatter afterwards, or the ValueError
set_units(self, units) ==
    IF units \notin UnitSystems
    THEN Raise(Builtin("ValueError", "Units must be 'metric' or 'imperial'"))
    ELSE Return(NewFormatter(units))

\* round(num / den, 1) for a value held in hundredths (round half to even);
\* the result is in hundredths
RoundRatio1(num, den) ==
    LET q == num \div (10 * den)
        r == num % (10 * den)
    IN  IF 2 * r < 10 * den THEN 10 * q
        ELSE IF 2 * r > 10 * den THEN 10 * (q + 1)
        ELSE IF q % 2 = 0 THEN 10 * q ELSE 10 * (q + 1)

\* _extract_temperature: round(float(temp), 1); float() of a string that
\* spells no number raises ValueError
TemperatureRaises(weather_data) ==
    weather_data.temp # None /\ ~IsNumber(weather_data.temp)

extract_temperature(weather_data) ==
    IF weather_data.temp = None THEN None ELSE Some(Round1(weather_data.temp[1]))

\* _extract_condition: weather_list[0].get('description', 'Unknown').capitalize()
extract_condition(weather_data) ==
    IF weather_data.weather = <<>> THEN <<"U", "n", "k", "n", "o", "w", "n">>
    ELSE IF weather_data.weather[1] = None THEN Capitalize(<<"U", "n", "k", "n", "o", "w", "n">>)
    ELSE Capitalize(weather_data.weather[1][1])

\* _extract_wind: km/h (speed * 3.6) for metric, mph (speed * 2.237) otherwise
extract_wind(self, weather_data) ==
    IF weather_data.speed = None THEN None
    ELSE IF self.units = "metric"
    THEN Some([speed |-> RoundRatio1(weather_data.speed[1] * 36, 10), unit |-> "km/h"])
    ELSE Some([speed |-> RoundRatio1(weather_data.speed[1] * 2237, 1000), unit |-> "mph"])

\* The text format_current_weather returns, by its parts: the line
\* f"Current: {temp}{self.temp_unit} - {condition}" and the details line, or
\* one of the two texts of the except clauses (KeyError, then Exception).
format_current_weather(self, weather_data) ==
    IF TemperatureRaises(weather_data)
    THEN [kind |-> "Unable to display current weather", temp |-> None, temp_unit |-> "",
          condition |-> <<>>, humidity |-> None, wind |-> None, pressure |-> None]
    ELSE IF DescriptionRaises(weather_data)
    THEN [kind |-> "Weather data incomplete - missing: 0", temp |-> None, temp_unit |-> "",
          condition |-> <<>>, humidity |-> None, wind |-> None, pressure |-> None]
    ELSE [kind |-> "Current",
          temp |-> extract_temperature(weather_data),
          temp_unit |-> self.temp_unit,
          condition |-> extract_condition(weather_data),
          humidity |-> weather_data.humidity,
          wind |-> extract_wind(self, weather_data),
          pressure |-> weather_data.pressure]

\* _format_date: strftime('%a %d %b') of the date, or the word as it is
FormatDate(word) ==
    CASE Strptime(word) = Some(15) -> "Mon 15 Jan"
      [] Strptime(word) = Some(16) -> "Tue 16 Jan"
      [] Strptime(word) = Some(17) -> "Wed 17 Jan"
      [] Strptime(word) = Some(18) -> "Thu 18 Jan"
      [] Strptime(word) = Some(19) -> "Fri 19 Jan"
      [] Strptime(word) = Some(20) -> "Sat 20 Jan"
      [] OTHER -> word

\* the temperatures of f"{temp_min}{unit} - {temp_max}{unit}", of the line with
\* the one that is there, or none ("No temp data")
TempRange(day) ==
    IF day.temp_min # None /\ day.temp_max # None THEN <<day.temp_min[1], day.temp_max[1]>>
    ELSE IF day.temp_min # None THEN <<day.temp_min[1]>>
    ELSE IF day.temp_max # None THEN <<day.temp_max[1]>>
    ELSE <<>>

\* format_forecast: "No forecast data available", or the heading and a line
\* f"{date_str}: {temp_range} | {weather}" for each day
format_forecast(self, days) ==
    IF days = <<>> THEN [kind |-> "No forecast data available", lines |-> <<>>]
    ELSE [kind |-> "Forecast:",
          lines |-> [k \in 1..Len(days) |->
                        [date_str |-> FormatDate(days[k].date),
                         temp_range |-> TempRange(days[k]),
                         temp_unit |-> self.temp_unit,
                         weather |-> days[k].weather]]]

\* _extract_location
extract_location(weather_data) ==
    IF weather_data.name = None \/ weather_data.name[1] = <<>> THEN None
    ELSE IF weather_data.country = None \/ weather_data.country[1] = <<>>
    THEN Some(weather_data.name[1])
    ELSE Some(weather_data.name[1] \o <<",", " ">> \o weather_data.country[1])

\* format_weather_summary: the sections joined
format_weather_summary(self, current, forecast) ==
    [location |-> extract_location(current),
     current |-> format_current_weather(self, current),
     forecast |-> IF forecast = <<>> THEN None ELSE Some(format_forecast(self, forecast))]

\* format_error
format_error(error_message) == "Error: " \o error_message

\* the values handed to the formatter
UnitsArgs == UnitSystems \cup {"invalid", ""}

CurrentMappings ==
    {EmptyMapping,
     CurrentWeather(Some(2850), <<Some(Rain)>>, Some(65), Some(500), Some(1013),
                    Some(<<"a">>), Some(<<"M">>)),
     CurrentWeather(Some(2500), <<Some(Sun)>>, None, None, None, None, None),
     CurrentWeather(Some(-500), <<None>>, None, Some(500), None, Some(<<"a">>), None),
     CurrentWeather(Quoted, <<Some(Sun)>>, Some(65), None, None, None, None),
     [CurrentWeather(Some(2850), <<Some(Sun)>>, None, None, None, None, None)
         EXCEPT !.weather_is_list = FALSE],
     CurrentWeather(None, <<Some(Sun)>>, Some(65), None, Some(1013), None, Some(<<"M">>))}

Days ==
    {[date |-> "2024-01-16", temp_min |-> Some(2500), temp_max |-> Some(3000),
      weather |-> Capitalize(Rain)],
     [date |-> "2024-01-17", temp_min |-> Some(2600), temp_max |-> None,
      weather |-> Capitalize(unknown)],
     [date |-> "soon", temp_min |-> None, temp_max |-> None, weather |-> Capitalize(Sun)]}

Forecasts == SeqsUpTo(Days, MaxDays)

NoFormatted == [op |-> "", args |-> <<>>, before |-> None, result |-> NoOutcome]

\* WeatherFormatter(units=units)
Formatter(units) ==
    /\ formatter' = Some(NewFormatter(units))
    /\ formatted' = [op |-> "__init__", args |-> <<units>>, before |-> None,
                     result |-> Return(<<>>)]
    /\ UNCHANGED <<environ, patched, client, sessions, pc, call, request, attempts,
                   provider, sent, reply, current_data, outcome, aggregation, log, run>>

\* formatter.set_units(units)
SetUnits(units) ==
    /\ formatter # None
    /\ formatted' = [op |-> "set_units", args |-> <<units>>, before |-> formatter,
                     result |-> set_units(formatter[1], units)]
    /\ formatter' = IF formatted'.result.ok THEN formatted'.result.value ELSE formatter
    /\ UNCHANGED <<environ, patched, client, sessions, pc, call, request, attempts,
                   provider, sent, reply, current_data, outcome, aggregation, log, run>>

\* formatter.format_current_weather(weather_data)
FormatCurrentWeather(weather_data) ==
    /\ formatter # None
    /\ formatted' = [op |-> "format_current_weather", args |-> <<weather_data>>,
                     before |-> formatter,
                     result |-> Return(format_current_weather(formatter[1], weather_data))]
    /\ UNCHANGED <<environ, patched, client, sessions, pc, call, request, attempts,
                   provider, sent, reply, current_data, outcome, aggregation, log, run,
                   formatter>>

\* formatter.format_forecast(forecast_data)
FormatForecast(days) ==
    /\ formatter # None
    /\ formatted' = [op |-> "format_forecast", args |-> <<days>>, before |-> formatter,
                     result |-> Return(format_forecast(formatter[1], days))]
    /\ UNCHANGED <<environ, patched, client, sessions, pc, call, request, attempts,
                   provider, sent, reply, current_data, outcome, aggregation, log, run,
                   formatter>>

\* formatter.format_weather_summary(current, forecast)
FormatWeatherSummary(current, days) ==
    /\ formatter # None
    /\ formatted' = [op |-> "format_weather_summary", args |-> <<current, days>>,
                     before |-> formatter,
                     result |-> Return(format_weather_summary(formatter[1], current, days))]
    /\ UNCHANGED <<environ, patched, client, sessions, pc, call, request, attempts,
                   provider, sent, reply, current_data, outcome, aggregation, log, run,
                   formatter>>

\* ------------------------------------------------------ the command line
\* what session.request can hand back (or raise) for a request: with the
\* session of _create_session, once it is through with its attempts; with a
\* test double patched over it, whatever the double does
FinalReplies(url) ==
    IF patched
    THEN Responses(url) \cup {Failure(e) : e \in PatchedFailures}
    ELSE {a \in Responses(url) : ~IsRetry(a)}
         \cup {Failure(Exhausted(a)) : a \in {x \in Attempts(url) : IsRetry(x)}}

\* weather_api.get_coordinates(city, country) as one call, the session having
\* handed back r
CoordinatesOutcome(city, country, r, modern) ==
    IF CityInvalid(city) THEN Raise(Builtin("ValueError", "City name cannot be empty"))
    ELSE IF CountryInvalid(country)
    THEN Raise(Builtin("ValueError", "Country must be 2-letter code"))
    ELSE CoordinatesResult(r, city, country, modern)

\* the first request of get_weather_data has been answered with a body to read
CurrentRead(r) == make_request(r, BASE_URL \o "/weather").ok /\ r.body.json

\* weather_api.get_weather_data(lat, lon) as one call, the session having
\* handed back r1 for the current conditions and r2 for the forecast
WeatherOutcome(lat, lon, r1, r2, modern, today) ==
    IF LatInvalid(lat) THEN Raise(Builtin("ValueError", "Invalid latitude"))
    ELSE IF LonInvalid(lon) THEN Raise(Builtin("ValueError", "Invalid longitude"))
    ELSE IF ~make_request(r1, BASE_URL \o "/weather").ok
    THEN make_request(r1, BASE_URL \o "/weather")
    ELSE IF ~r1.body.json THEN JsonError(modern, "Failed to fetch weather data", "weather")
    ELSE WeatherResult(r2, r1.body.data, modern, today)

\* WeatherCLIError.__str__; str() of an exception of Python is its message
Str(e) ==
    IF e.error_code # "" THEN "[" \o e.error_code \o "] " \o e.message ELSE e.message

\* one click.echo: the stream, what is echoed (an error, the progress line,
\* the cancellation notice, click's own "Aborted!", or the report) and its text
Echo(stream, kind, text, report) ==
    [stream |-> stream, kind |-> kind, text |-> text, report |-> report]

\* `if not api_key: api_key = os.getenv("OPENWEATHER_API_KEY")`
ResolveKey(api_key, env) == IF api_key = None \/ api_key[1] = <<>> THEN env ELSE api_key

\* `if not api_key:` after that
\* variant: only a key that is not there at all is reported by main() itself
CliKeyMissing_noneOnly(key) == key = None

CliKeyMissing(key) == key = None \/ key[1] = <<>>

MissingKeyText ==
    "Error: API key not found. Please set OPENWEATHER_API_KEY environment variable "
    \o "or use --api-key option."

\* click's handling of click.Abort in main(): "Aborted!" on stderr, exit code 1
Aborted == Echo("err", "aborted", "Aborted!", None)

\* the text echoed by the except clause that catches e
\* variant: an error without a clause of its own is reported without its text
HandlerText_generic(e) ==
    IF e.cls \in {"CityNotFoundError", "InvalidAPIKeyError", "APIRequestError"}
    THEN format_error(Str(e))
    ELSE format_error("An unexpected error occurred")

HandlerText(e) ==
    IF e.cls \in {"CityNotFoundError", "InvalidAPIKeyError", "APIRequestError"}
    THEN format_error(Str(e))
    ELSE format_error("An unexpected error occurred: " \o Str(e))

\* the run after the except clause for e: the error echoed, click.Abort raised
Failed(r, e) ==
    [r EXCEPT !.pc = "exit",
              !.failure = Some(e),
              !.echoed = r.echoed \o <<Echo("err", "error", HandlerText(e), None), Aborted>>,
              !.exit_code = Some(1)]

\* the options click hands to main(): --units and --format are choices,
\* --timeout is left at its default
CliKeys == {None, Some(<<>>), Some(KeyOf(MinKeyLen - 1, "a")), Some(KeyOf(MinKeyLen, "a"))}
CliPlaces == {<<<<"a">>, <<"m", "m">>>>, <<<<"a">>, <<"m">>>>, <<<<" ">>, <<"m", "m">>>>}
OutputFormats == {"simple", "detailed", "json"}

CliOptions ==
    {[city |-> p[1], country |-> p[2], units |-> u, debug |-> d, api_key |-> k,
      timeout |-> DefaultTimeout, output_format |-> f] :
        p \in CliPlaces, u \in UnitSystems, d \in BOOLEAN, k \in CliKeys,
        f \in OutputFormats}

\* main() up to its call of get_coordinates: the formatter is made, the key is
\* looked up, the client is constructed, the progress line is echoed
Main(options) ==
    /\ run.pc = ""
    /\ formatter' = Some(NewFormatter(options.units))
    /\ LET key == ResolveKey(options.api_key, environ)
           started == [NoRun EXCEPT !.options = options]
       IN  IF CliKeyMissing(key)
           THEN /\ run' = [started EXCEPT
                              !.pc = "exit",
                              !.echoed = <<Echo("err", "error", MissingKeyText, None),
                                          Aborted>>,
                              !.exit_code = Some(1)]
                /\ UNCHANGED <<client, sessions, log>>
           ELSE LET made == NewClient(key, Some(options.timeout), environ, sessions + 1)
                    constructing == [started EXCEPT !.called = <<"WeatherAPI">>]
                IN  /\ log' = InitLog(key, environ)
                    /\ IF made.ok
                       THEN /\ client' = made.value
                            /\ sessions' = sessions + 1
                            /\ run' = [constructing EXCEPT
                                          !.pc = "get_coordinates",
                                          !.echoed =
                                              IF options.debug THEN <<>>
                                              ELSE <<Echo("out", "progress",
                                                          "Fetching weather for ...",
                                                          None)>>]
                       ELSE /\ run' = Failed(constructing, made.error)
                            /\ UNCHANGED <<client, sessions>>
    /\ UNCHANGED <<environ, patched, pc, call, request, attempts, provider, sent, reply,
                   current_data, outcome, aggregation, formatted>>

\* lat, lon = weather_api.get_coordinates(city, country), to its return or to
\* the end of the except clause that catches what it raises
CliGetCoordinates ==
    /\ run.pc = "get_coordinates"
    /\ \E r \in FinalReplies(GEO_URL \o "/direct"), modern \in BOOLEAN :
          LET result == CoordinatesOutcome(run.options.city, run.options.country, r, modern)
              calling == [run EXCEPT !.called = Append(@, "get_coordinates")]
          IN  /\ sent' = IF CityInvalid(run.options.city)
                                \/ CountryInvalid(run.options.country)
                         THEN sent
                         ELSE Append(sent, GeoRequest(run.options.city, run.options.country))
              /\ run' = IF result.ok
                        THEN [calling EXCEPT !.pc = "get_weather_data",
                                             !.coordinates = result.value]
                        ELSE Failed(calling, result.error)
    /\ UNCHANGED <<environ, patched, client, sessions, pc, call, request, attempts,
                   provider, reply, current_data, outcome, aggregation, log, formatter,
                   formatted>>

\* weather_data = weather_api.get_weather_data(lat, lon), likewise
CliGetWeatherData ==
    /\ run.pc = "get_weather_data"
    /\ \E r1 \in FinalReplies(BASE_URL \o "/weather"),
          r2 \in FinalReplies(BASE_URL \o "/forecast"),
          modern \in BOOLEAN, today \in Todays :
          LET lat == run.coordinates[1][1]
              lon == run.coordinates[1][2]
              result == WeatherOutcome(lat, lon, r1, r2, modern, today)
              calling == [run EXCEPT !.called = Append(@, "get_weather_data")]
          IN  /\ sent' = sent \o <<WeatherRequest("/weather", lat, lon)>>
                              \o IF CurrentRead(r1)
                                 THEN <<WeatherRequest("/forecast", lat, lon)>>
                                 ELSE <<>>
              /\ run' = IF result.ok
                        THEN [calling EXCEPT !.pc = "display",
                                             !.weather_data = result.value]
                        ELSE Failed(calling, result.error)
    /\ UNCHANGED <<environ, patched, client, sessions, pc, call, request, attempts,
                   provider, reply, current_data, outcome, aggregation, log, formatter,
                   formatted>>

\* the report of the format asked for
Report(self, output_format, weather_data) ==
    IF output_format = "json"
    THEN [format |-> "json", data |-> Some(weather_data), summary |-> None,
          current |-> None, forecast |-> None]
    ELSE IF output_format = "detailed"
    THEN [format |-> "detailed", data |-> None,
          summary |-> Some(format_weather_summary(self, weather_data.current,
                                                  weather_data.forecast)),
          current |-> None, forecast |-> None]
    ELSE [format |-> "simple", data |-> None, summary |-> None,
          current |-> Some(format_current_weather(self, weather_data.current)),
          forecast |-> IF weather_data.forecast = <<>> THEN None
                       ELSE Some(format_forecast(self, weather_data.forecast))]

\* the report is echoed and main() returns: exit code 0
CliDisplay ==
    /\ run.pc = "display"
    /\ run' = [run EXCEPT
                  !.pc = "exit",
                  !.echoed = Append(@, Echo("out", "report", run.options.output_format,
                                            Some(Report(formatter[1],
                                                        run.options.output_format,
                                                        run.weather_data[1])))),
                  !.exit_code = Some(0)]
    /\ UNCHANGED <<environ, patched, client, sessions, pc, call, request, attempts,
                   provider, sent, reply, current_data, outcome, aggregation, log,
                   formatter, formatted>>

\* Ctrl-C while a call of the client waits for the provider: the except
\* clause for KeyboardInterrupt echoes the notice and raises click.Abort
KeyboardInterrupt ==
    /\ run.pc \in {"get_coordinates", "get_weather_data"}
    /\ run' = [run EXCEPT
                  !.pc = "exit",
                  !.called = Append(@, run.pc),
                  !.interrupted = TRUE,
                  !.echoed = @ \o <<Echo("err", "cancelled",
                                         "Operation cancelled by user", None),
                                    Aborted>>,
                  !.exit_code = Some(1)]
    /\ UNCHANGED <<environ, patched, client, sessions, pc, call, request, attempts,
                   provider, sent, reply, current_data, outcome, aggregation, log,
                   formatter, formatted>>

\* ------------------------------------------------------- specifications
\* Construction: no client yet; each step is one WeatherAPI(...) call.
InitNoClient ==
    /\ environ \in EnvKeys
    /\ patched \in BOOLEAN
    /\ client = None
    /\ sessions = 0
    /\ pc = "ready"
    /\ call = NoCall
    /\ request = NoRequest
    /\ attempts = 0
    /\ provider = NoAttempt
    /\ sent = <<>>
    /\ reply = NoReply
    /\ current_data = None
    /\ outcome = NoOutcome
    /\ forecast_data = [list |-> <<>>]
    /\ clock = CHOOSE d \in Todays : TRUE
    /\ calls = 0
    /\ daily_forecast = NoOutcome
    /\ log = <<>>
    /\ formatter = None
    /\ formatted = NoFormatted
    /\ run = NoRun

NextInit ==
    \/ \E api_key \in ArgKeys, timeout \in TimeoutArgs : Construct(api_key, timeout)
    \/ Returned

SpecInit == InitNoClient /\ [][NextInit]_vars

\* the constructor calls that made the client whose calls are followed
InitClients ==
    {<<Some(KeyOf(MinKeyLen, "a")), None>>, <<Some(KeyOf(MaxKeyLen, "a")), Some(30)>>}

\* The calls of a client: the state after a successful construction, with the
\* library's session or with a test double patched over Session.request.
Init ==
    /\ environ = None
    /\ patched \in BOOLEAN
    /\ \E c \in InitClients :
          /\ NewClient(c[1], c[2], None, 1).ok
          /\ client = NewClient(c[1], c[2], None, 1).value
    /\ sessions = 1
    /\ pc = "ready"
    /\ call = NoCall
    /\ request = NoRequest
    /\ attempts = 0
    /\ provider = NoAttempt
    /\ sent = <<>>
    /\ reply = NoReply
    /\ current_data = None
    /\ outcome = NoOutcome
    /\ forecast_data = [list |-> <<>>]
    /\ clock = CHOOSE d \in Todays : TRUE
    /\ calls = 0
    /\ daily_forecast = NoOutcome
    /\ log = <<>>
    /\ formatter = None
    /\ formatted = NoFormatted
    /\ run = NoRun

Next ==
    \/ \E city \in Cities, country \in Countries : get_coordinates(city, country)
    \/ \E lat \in Latitudes, lon \in Longitudes : get_weather_data(lat, lon)
    \/ SessionRetry
    \/ SessionGiveUp
    \/ SessionResponse
    \/ PatchedRequest
    \/ Returned

Spec == Init /\ [][Next]_vars

\* Clients made one after the other, each called before the next is made,
\* with Session.request patched; no key in the environment.
InitClientsInTurn == InitNoClient /\ environ = None /\ patched

NextClientsInTurn ==
    \/ \E api_key \in ArgKeys, timeout \in TimeoutArgs : Construct(api_key, timeout)
    \/ \E city \in Cities, country \in Countries : get_coordinates(city, country)
    \/ \E lat \in Latitudes, lon \in Longitudes : get_weather_data(lat, lon)
    \/ PatchedRequest
    \/ Returned

SpecClientsInTurn == InitClientsInTurn /\ [][NextClientsInTurn]_vars

\* ------------------------------------- _process_forecast called directly
\* (as the tests call it): api._process_forecast(forecast_data)
Sample(date, temp, temp_min, temp_max, weather) ==
    [dt_txt |-> IF date = "" THEN <<>> ELSE <<date, "12:00:00">>,
     temp |-> temp, temp_min |-> temp_min, temp_max |-> temp_max, weather |-> weather,
     weather_is_list |-> TRUE]

\* samples of five days running, the first of them the earlier of Todays
WeekSamples ==
    {Sample("2024-01-15", Some(1500), None, None, <<Some(Sun)>>),
     Sample("2024-01-16", Some(2850), Some(2500), Some(3000), <<Some(Rain)>>),
     Sample("2024-01-17", Some(2705), None, None, <<>>),
     Sample("2024-01-18", None, None, None, <<None>>),
     Sample("2024-01-19", Some(2000), Some(1915), Some(2025), <<Some(Sun)>>)}

\* more samples of two of those days (one with a minimum only, one with a
\* lower maximum only); samples with a temperature that is a
\* string, with an object in place of the weather list, with a date that is
\* not zero-padded, with a date word that is no date, and with no timestamp
OddSamples ==
    {Sample("2024-01-16", None, Some(2400), Some(3100), <<Some(Sun)>>),
     Sample("2024-01-16", None, Quoted, Some(3200), <<>>),
     Sample("2024-01-16", None, Some(2300), Quoted, <<>>),
     [Sample("2024-01-16", None, Some(2200), Some(3300), <<Some(Sun)>>)
         EXCEPT !.weather_is_list = FALSE],
     Sample("2024-01-17", None, Some(2600), None, <<Some(Rain)>>),
     Sample("2024-01-17", None, None, Some(2000), <<>>),
     Sample("2024-1-17", Some(1700), None, None, <<Some(Sun)>>),
     Sample("soon", Some(2000), None, None, <<Some(Rain)>>),
     Sample("", Some(2000), Some(1000), Some(3000), <<Some(Rain)>>)}

ForecastSamples == WeekSamples \cup OddSamples

\* the lists that hold each sample of some days of the week once, in any order
WeekLists ==
    UNION {{l \in [1..n -> WeekSamples] : \A i, j \in 1..n : l[i] = l[j] => i = j} :
              n \in (Cardinality(WeekSamples) - 1)..Cardinality(WeekSamples)}

\* the sample lists handed to _process_forecast
ForecastLists == SeqsUpTo(ForecastSamples, MaxForecastLen) \cup WeekLists

\* the client objects of the caller: the one of `client` and the others that
\* the constructor calls of InitClients make
Clients == {client[1]} \cup {NewClient(c[1], c[2], None, 1).value[1] : c \in InitClients}

\* one direct call on the client `self`; the method reads nothing of `self`
\* and assigns to nothing but its locals
ProcessForecast(self) ==
    /\ pc = "ready"
    /\ self \in Clients
    /\ calls < MaxCalls
    /\ daily_forecast' = process_forecast(forecast_data, clock)
    /\ calls' = calls + 1
    /\ UNCHANGED <<forecast_data, clock, environ, patched, client, sessions, pc, call,
                   request, attempts, provider, sent, reply, current_data, outcome, log,
                   frontend>>

\* a client, a sample list in the caller's hands and the date of the day
InitForecast ==
    /\ environ = None
    /\ patched = FALSE
    /\ client = NewClient(Some(KeyOf(MinKeyLen, "a")), None, None, 1).value
    /\ sessions = 1
    /\ pc = "ready"
    /\ call = NoCall
    /\ request = NoRequest
    /\ attempts = 0
    /\ provider = NoAttempt
    /\ sent = <<>>
    /\ reply = NoReply
    /\ current_data = None
    /\ outcome = NoOutcome
    /\ forecast_data \in {[list |-> l] : l \in ForecastLists}
    /\ clock \in Todays
    /\ calls = 0
    /\ daily_forecast = NoOutcome
    /\ log = <<>>
    /\ formatter = None
    /\ formatted = NoFormatted
    /\ run = NoRun

NextForecast == \E self \in Clients : ProcessForecast(self)

SpecForecast == InitForecast /\ [][NextForecast]_vars

\* The formatter on its own, as its tests use it: formatters made with any
\* units value, their units changed, mappings and forecasts formatted.
InitFormatter == InitNoClient /\ environ = None /\ ~patched

NextFormatter ==
    \/ \E units \in UnitsArgs : Formatter(units)
    \/ \E units \in UnitsArgs : SetUnits(units)
    \/ \E weather_data \in CurrentMappings : FormatCurrentWeather(weather_data)
    \/ \E days \in Forecasts : FormatForecast(days)
    \/ \E weather_data \in CurrentMappings, days \in Forecasts :
          FormatWeatherSummary(weather_data, days)

SpecFormatter == InitFormatter /\ [][NextFormatter]_vars

\* One run of the command line, from the options click has accepted to the
\* exit code, with the library's session or with a test double patched over
\* Session.request.
CliEnvKeys == {None, Some(<<>>), Some(KeyOf(MinKeyLen, "e"))}

InitCli == InitNoClient /\ environ \in CliEnvKeys

NextCli ==
    \/ \E options \in CliOptions : Main(options)
    \/ CliGetCoordinates
    \/ CliGetWeatherData
    \/ CliDisplay
    \/ KeyboardInterrupt

SpecCli == InitCli /\ [][NextCli]_vars

\* ================================================================ claims
\* the six kinds of the taxonomy, as classes of exceptions.py
SixKinds ==
    {"InvalidAPIKeyError", "ValidationError", "CityNotFoundError", "RateLimitError",
     "ServiceUnavailableError", "APIRequestError"}

ClientCall == call.op \in {"get_coordinates", "get_weather_data"}

\* the call has ended and the last thing the session did was to hand back a
\* response
EndedWithResponse == pc = "done" /\ ClientCall /\ reply.exc = "" /\ reply.status # 0

FailedWith(cls) == pc = "done" /\ ~outcome.ok /\ outcome.error.cls = cls

Is2xx(status) == 200 <= status /\ status <= 299

\* the numbers a Retry-After header of the model can spell
HeaderNumbers == 0..999

\* C1: the HTTP status the session hands back decides the outcome alone: 429
\* fails with RateLimitError, 5xx with ServiceUnavailableError, 401 with
\* InvalidAPIKeyError, every other non-2xx status with APIRequestError, and
\* only a 2xx status lets the call read the body.
C1_StatusDecidesOutcome ==
    EndedWithResponse =>
        CASE reply.status = 429 -> FailedWith("RateLimitError")
          [] reply.status >= 500 -> FailedWith("ServiceUnavailableError")
          [] reply.status = 401 -> FailedWith("InvalidAPIKeyError")
          [] ~Is2xx(reply.status) -> FailedWith("APIRequestError")
          [] OTHER -> TRUE

\* C2: with the session of _create_session, a provider that answers every
\* attempt of a request with 429 until the retries are used up makes the call
\* fail with RateLimitError, and one that answers every attempt with the same
\* 500, 502, 503 or 504 makes it fail with ServiceUnavailableError.
C2_PersistentStatusClassified ==
    (pc = "done" /\ ClientCall /\ ~patched /\ attempts = MAX_RETRIES + 1
        /\ provider.uniform /\ provider.last[1] = "")
    => /\ provider.last[2] = 429 => FailedWith("RateLimitError")
       /\ provider.last[2] \in {500, 502, 503, 504} => FailedWith("ServiceUnavailableError")

\* C3: a request that ends with a 429 response gives RateLimitError with
\* retry_after = N for a header Retry-After: N (N a number of seconds) and with
\* retry_after = 60 without the header, and the client does not issue the
\* request again.
C3_RetryAfterCarried ==
    (EndedWithResponse /\ reply.status = 429) =>
        /\ reply.retry_after = None =>
              FailedWith("RateLimitError") /\ outcome.error.retry_after = Some(60)
        /\ \A n \in HeaderNumbers :
              reply.retry_after = Some(DecimalText(n)) =>
                  FailedWith("RateLimitError") /\ outcome.error.retry_after = Some(n)
        /\ (reply.retry_after = None
              \/ \E n \in HeaderNumbers : reply.retry_after = Some(DecimalText(n)))
           => /\ request = sent[Len(sent)]
              /\ \A i, j \in 1..Len(sent) : sent[i].url = sent[j].url => i = j
              /\ patched => attempts = 1

\* a 429 with Retry-After: 55 has ended a call
C3_Witness ==
    /\ EndedWithResponse
    /\ reply.status = 429
    /\ reply.retry_after = Some(<<"5", "5">>)
    /\ FailedWith("RateLimitError")
    /\ outcome.error.retry_after = Some(55)

\* a character that no number of seconds contains
NotNumeric(text) == \E i \in 1..Len(text) : ~IsDigit(text[i])

\* C4: a 429 whose Retry-After header is present but is no integer number of
\* seconds still fails with RateLimitError, carrying retry_after = 60.
C4_UnparseableRetryAfterDefaults ==
    (EndedWithResponse /\ reply.status = 429 /\ reply.retry_after # None
        /\ NotNumeric(reply.retry_after[1]))
    => FailedWith("RateLimitError") /\ outcome.error.retry_after = Some(60)

\* the credential a construction has at hand: the one passed, unless none or
\* an empty one was passed, and then the one of the environment
Available(passed, env) == IF passed # None /\ Len(passed[1]) > 0 THEN passed ELSE env

Usable(cred) == cred # None /\ Len(cred[1]) >= 10

\* C5: constructing a client succeeds exactly when a credential of at least 10
\* characters is available; a failure is an InvalidAPIKeyError, creates no
\* session and issues no request; a success holds the credential unchanged and
\* the timeout given, 10 when none is given.
C5_ConstructionContract ==
    [][(pc' = "done" /\ call'.op = "__init__") =>
        LET cred == Available(call'.args.api_key, environ) IN
        /\ outcome'.ok <=> Usable(cred)
        /\ ~Usable(cred) =>
              /\ outcome'.error.cls = "InvalidAPIKeyError"
              /\ sessions' = sessions
              /\ client' = client
              /\ sent' = <<>> /\ attempts' = 0
        /\ Usable(cred) =>
              /\ client' # None
              /\ client'[1].api_key = cred[1]
              /\ client'[1].timeout =
                    (IF call'.args.timeout = None THEN 10 ELSE call'.args.timeout[1])
              /\ sessions' = sessions + 1
              /\ client'[1].session = sessions'
              /\ sent' = <<>> /\ attempts' = 0]_vars

\* a client was made with a key of exactly 10 characters and no timeout given
C5_Witness ==
    /\ pc = "done"
    /\ call.op = "__init__"
    /\ call.args.api_key # None
    /\ Len(call.args.api_key[1]) = 10
    /\ call.args.timeout = None
    /\ outcome.ok
    /\ client # None
    /\ client[1].api_key = call.args.api_key[1]
    /\ client[1].timeout = 10

InRange(lat, lon) == -90 <= lat /\ lat <= 90 /\ -180 <= lon /\ lon <= 180

\* C6, as claimed: coordinates out of range fail with the taxonomy's
\* ValidationError and no request; coordinates in range never fail with it.
C6_OutOfRangeIsValidationError ==
    (pc = "done" /\ call.op = "get_weather_data") =>
        /\ ~InRange(call.args.lat, call.args.lon) =>
              FailedWith("ValidationError") /\ sent = <<>>
        /\ InRange(call.args.lat, call.args.lon) => ~FailedWith("ValidationError")

\* C6, amended: get_weather_data with a latitude outside [-90, 90] or a
\* longitude outside [-180, 180] fails with Python's ValueError, which is no
\* class of the taxonomy, before any request; with both in range (the bounds
\* included) it never fails before its first request is issued.
C6_OutOfRangeIsValueError ==
    (pc # "ready" /\ call.op = "get_weather_data") =>
        /\ ~InRange(call.args.lat, call.args.lon) =>
              /\ FailedWith("ValueError")
              /\ "ValueError" \notin ERROR_HIERARCHY
              /\ sent = <<>> /\ attempts = 0 /\ reply = NoReply
        /\ InRange(call.args.lat, call.args.lon) => Len(sent) >= 1

\* a latitude of 91 was refused
C6_Witness ==
    /\ pc = "done"
    /\ call.op = "get_weather_data"
    /\ call.args.lat = 91
    /\ FailedWith("ValueError")
    /\ sent = <<>>

NonBlank(text) == \E i \in 1..Len(text) : text[i] # " "

Accepted(city, country) == NonBlank(city) /\ Len(country) = 2

\* C7, as claimed: a city that is not blank with a country of exactly 2
\* characters issues exactly one geocoding request; any other input fails with
\* the taxonomy's ValidationError and issues none.
C7_BadInputIsValidationError ==
    (pc # "ready" /\ call.op = "get_coordinates") =>
        /\ Accepted(call.args.city, call.args.country) => Len(sent) = 1
        /\ ~Accepted(call.args.city, call.args.country) =>
              FailedWith("ValidationError") /\ sent = <<>>

\* C7, amended: the same, the failure being Python's ValueError, which is no
\* class of the taxonomy.
C7_BadInputIsValueError ==
    (pc # "ready" /\ call.op = "get_coordinates") =>
        /\ Accepted(call.args.city, call.args.country) =>
              /\ Len(sent) = 1
              /\ sent[1].url = GEO_URL \o "/direct"
        /\ ~Accepted(call.args.city, call.args.country) =>
              /\ FailedWith("ValueError")
              /\ "ValueError" \notin ERROR_HIERARCHY
              /\ sent = <<>> /\ attempts = 0 /\ reply = NoReply

\* a country code of 3 characters was refused, the city being fine
C7_Witness ==
    /\ pc = "done"
    /\ call.op = "get_coordinates"
    /\ NonBlank(call.args.city)
    /\ Len(call.args.country) = 3
    /\ FailedWith("ValueError")
    /\ sent = <<>>

\* the geocoding request got a 2xx response with an empty list of matches
NoMatch ==
    /\ pc = "done"
    /\ call.op = "get_coordinates"
    /\ reply.exc = ""
    /\ Is2xx(reply.status)
    /\ reply.body.json
    /\ reply.body.data = <<>>

\* C8: an empty result list makes get_coordinates fail with CityNotFoundError,
\* whose city and country are the caller's values as passed, neither trimmed
\* nor upper-cased, and the error is not turned into an APIRequestError.
C8_NotFoundCarriesArguments ==
    NoMatch =>
        /\ FailedWith("CityNotFoundError")
        /\ outcome.error.city = Some(call.args.city)
        /\ outcome.error.country = Some(call.args.country)

\* not found, for a city with a leading space and a lower-case country
C8_Witness ==
    /\ NoMatch
    /\ call.args.city = <<" ", "a">>
    /\ call.args.country = <<"m", "m">>
    /\ outcome.error.city = Some(<<" ", "a">>)
    /\ outcome.error.country = Some(<<"m", "m">>)

\* C9: get_weather_data issues the current-conditions request first and the
\* forecast request only after that one has succeeded, both with the call's
\* latitude and longitude and units=metric, two requests at most; a request
\* that fails ends the call with its error and without a report.
C9_CurrentThenForecast ==
    call.op = "get_weather_data" =>
        /\ Len(sent) <= 2
        /\ Len(sent) >= 1 => sent[1].url = BASE_URL \o "/weather"
        /\ Len(sent) = 2 =>
              /\ sent[2].url = BASE_URL \o "/forecast"
              /\ current_data # None
        /\ (Len(sent) = 2 /\ pc = "sending") =>
              /\ make_request(reply, BASE_URL \o "/weather").ok
              /\ reply.body.json
        /\ \A i \in 1..Len(sent) :
              /\ sent[i].params.lat = call.args.lat
              /\ sent[i].params.lon = call.args.lon
              /\ sent[i].params.units = "metric"
        /\ (pc = "done" /\ sent # <<>> /\ ~make_request(reply, request.url).ok) =>
              /\ outcome = make_request(reply, request.url)
              /\ outcome.value = None
        /\ (pc = "done" /\ outcome.ok) =>
              /\ Len(sent) = 2
              /\ outcome.value # None
              /\ outcome.value[1].current = current_data[1]

\* both requests were made and the report returned
C9_Witness ==
    /\ pc = "done"
    /\ call.op = "get_weather_data"
    /\ Len(sent) = 2
    /\ sent[1].url = BASE_URL \o "/weather"
    /\ sent[2].url = BASE_URL \o "/forecast"
    /\ outcome.ok

\* C10: every failure of a call of the client is of one of the six kinds
\* (Python's ValueError raised for an invalid argument, before any request, is
\* counted here as the ValidationError kind).
C10_OnlySixKinds ==
    (pc = "done" /\ ~outcome.ok) =>
        \/ outcome.error.cls \in SixKinds
        \/ outcome.error.cls = "ValueError" /\ sent = <<>>

\* the call has ended on a transport failure of its last attempt
EndedWithFailure == pc = "done" /\ ClientCall /\ provider.last[1] # ""

TimedOut == provider.last[1] \in {"ConnectTimeoutError", "ReadTimeoutError", "Timeout"}

\* C11: a transport-level timeout makes the call fail with APIRequestError
\* whose message tells of a timeout, a transport-level connection failure with
\* APIRequestError whose message tells of the connection; both name the
\* endpoint and carry the transport error as their cause.
C11_TransportFailureReported ==
    EndedWithFailure =>
        /\ FailedWith("APIRequestError")
        /\ outcome.error.endpoint = Some(request.url)
        /\ outcome.error.original_error # None
        /\ outcome.error.message =
              IF TimedOut
              THEN "Request timeout - weather service is not responding"
              ELSE "Cannot connect to weather service - check internet connection"

\* ------------------------------------------------ claims on the forecast
\* a direct call of _process_forecast has returned a list
Aggregated == calls >= 1 /\ daily_forecast.ok

Entries == daily_forecast.value[1]

Input == forecast_data.list

\* the date word of a sample, "" when it has no timestamp
DateOf(item) == IF item.dt_txt = <<>> THEN "" ELSE item.dt_txt[1]

\* the positions of the samples of a date in the input
SamplesOf(date) == {i \in 1..Len(Input) : DateOf(Input[i]) = date}

Low(item) == IF item.temp_min # None THEN item.temp_min ELSE item.temp

High(item) == IF item.temp_max # None THEN item.temp_max ELSE item.temp

Least(S) == CHOOSE x \in S : \A y \in S : x <= y

Greatest(S) == CHOOSE x \in S : \A y \in S : x >= y

OneDecimal(hundredths) == Round1(hundredths)

\* the minimum and the maximum, to one decimal, that the samples at the
\* positions P contribute; a contribution that is no number has no part in it
Extremes(P) ==
    LET lows == {Low(Input[i])[1] : i \in {j \in P : IsNumber(Low(Input[j]))}}
        highs == {High(Input[i])[1] : i \in {j \in P : IsNumber(High(Input[j]))}}
    IN  [temp_min |-> IF lows = {} THEN None ELSE Some(OneDecimal(Least(lows))),
         temp_max |-> IF highs = {} THEN None ELSE Some(OneDecimal(Greatest(highs)))]

\* a sample all of whose fields can be parsed: no temperature is a string and
\* the weather is a list
Parsed(item) ==
    /\ Low(item) # Quoted
    /\ High(item) # Quoted
    /\ item.weather_is_list \/ item.weather = <<>>

TempsOf(entry) == [temp_min |-> entry.temp_min, temp_max |-> entry.temp_max]

\* C12: every emitted entry has the minimum of the min-contributions and the
\* maximum of the max-contributions of the samples of its date (of all of
\* them, or of all but those with a field that cannot be parsed, which are
\* to be skipped), whatever the order of the samples.
C12_ExtremesOverSamples ==
    Aggregated =>
        \A k \in 1..Len(Entries) :
            \/ TempsOf(Entries[k]) = Extremes(SamplesOf(Entries[k].date))
            \/ TempsOf(Entries[k]) =
                  Extremes({i \in SamplesOf(Entries[k].date) : Parsed(Input[i])})

Described(item) == item.weather # <<>> /\ item.weather[1] # None

\* the condition to show for a sample
Shown(item) ==
    IF Described(item) THEN Capitalize(item.weather[1][1])
    ELSE <<"U", "n", "k", "n", "o", "w", "n">>

Listed(date) ==
    {i \in SamplesOf(date) : Input[i].weather_is_list \/ Input[i].weather = <<>>}

NotAfterToday(word) == Strptime(word) # None /\ Strptime(word)[1] <= clock

Dated(item) == item.dt_txt # <<>>

\* the input without its samples of today and of earlier days
LaterSamples == SelectSeq(Input, LAMBDA item : ~(Dated(item) /\ NotAfterToday(DateOf(item))))

DayOf(k) == Strptime(Entries[k].date)[1]

\* the calendar days after today that occur among the samples (those skipped
\* for having no timestamp or a weather that cannot be read left aside)
FutureDays ==
    {Strptime(DateOf(Input[i]))[1] :
        i \in {j \in 1..Len(Input) :
                  /\ Dated(Input[j])
                  /\ Input[j].weather_is_list \/ Input[j].weather = <<>>
                  /\ Strptime(DateOf(Input[j])) # None
                  /\ Strptime(DateOf(Input[j]))[1] > clock}}

\* the n earliest days of a set of days
RECURSIVE Earliest(_, _)
Earliest(days, n) ==
    IF n = 0 \/ days = {} THEN {}
    ELSE {Least(days)} \cup Earliest(days \ {Least(days)}, n - 1)

\* C15: the output has at most 3 entries, one per calendar date at most, in
\* strictly ascending order of calendar date, and its dates are the earliest
\* min(3, k) of the k calendar dates after today that occur among the samples.
C15_EarliestThreeAscending ==
    Aggregated =>
        /\ Len(Entries) <= 3
        /\ \A k \in 1..Len(Entries) : Strptime(Entries[k].date) # None
        /\ \A k \in 1..(Len(Entries) - 1) : DayOf(k) < DayOf(k + 1)
        /\ {DayOf(k) : k \in 1..Len(Entries)} = Earliest(FutureDays, 3)

\* a sample to be skipped: it has no timestamp, or its date cannot be derived,
\* or one of its fields cannot be parsed
Malformed(item) ==
    \/ ~Dated(item)
    \/ Strptime(DateOf(item)) = None
    \/ ~Parsed(item)

WellFormedSamples == SelectSeq(Input, LAMBDA item : ~Malformed(item))

\* C16: _process_forecast raises nothing for any sample list; a sample without
\* timestamp, with an underivable date or with a field that cannot be parsed
\* is skipped on its own, so the output is the one of the list without such
\* samples; an empty list gives the empty list.
C16_MalformedSamplesSkipped ==
    calls >= 1 =>
        /\ daily_forecast.ok
        /\ daily_forecast = process_forecast([list |-> WellFormedSamples], clock)
        /\ Input = <<>> => daily_forecast.value = Some(<<>>)

RetriedStatus(last) == last[1] = "" /\ last[2] \in {429, 500, 502, 503, 504}

\* a further attempt of the request in progress is answered in this step
FurtherAttempt == attempts >= 1 /\ attempts' = attempts + 1

\* what C18 says of the client itself: within a call no request is issued
\* twice, and a call that has ended sends nothing more
NeverReissued ==
    /\ \A i, j \in 1..Len(sent') : sent'[i].url = sent'[j].url => i = j
    /\ pc = "done" => attempts' = 0 /\ sent' = <<>>

C19_OneSessionPerClient ==
    [][/\ (call'.op = "__init__" /\ pc' = "done" /\ outcome'.ok) =>
             /\ sessions' = sessions + 1
             /\ client'[1].session = sessions'
             /\ client = None \/ client[1].session <= sessions
       /\ ~(call'.op = "__init__" /\ pc' = "done" /\ outcome'.ok) =>
             /\ sessions' = sessions
             /\ client' = client
       /\ \A i \in 1..Len(sent') : sent'[i].session = client'[1].session
       /\ pc' = "sending" => request'.session = client'[1].session]_vars

\* the second client made has sent a request, through the second session
C19_Witness ==
    /\ sessions = 2
    /\ client # None
    /\ client[1].session = 2
    /\ pc = "done"
    /\ ClientCall
    /\ Len(sent) = 2
    /\ sent[2].session = 2

\* the geocoding request got a 2xx response listing at least one match, the
\* first of which has both coordinates
Matched ==
    /\ pc = "done"
    /\ call.op = "get_coordinates"
    /\ reply.exc = ""
    /\ Is2xx(reply.status)
    /\ reply.body.json
    /\ reply.body.data # <<>>
    /\ reply.body.data[1].lat # None
    /\ reply.body.data[1].lon # None

\* C20: for every accepted (city, country) the one geocoding request has
\* limit 1 and the query "<city trimmed>,<COUNTRY>", COUNTRY being the
\* country code upper-cased, 2 characters long; with one or more matches the
\* call returns the (lat, lon) of the first.
C20_QueryAndFirstMatch ==
    (pc # "ready" /\ call.op = "get_coordinates"
        /\ Accepted(call.args.city, call.args.country)) =>
        /\ Len(sent) = 1
        /\ sent[1].params.limit = 1
        /\ \E code \in {Upper(call.args.country), Strip(Upper(call.args.country))} :
              /\ Len(code) = 2
              /\ sent[1].params.q = Strip(call.args.city) \o <<",">> \o code
        /\ Matched =>
              /\ outcome.ok
              /\ outcome.value = Some(<<reply.body.data[1].lat[1], reply.body.data[1].lon[1]>>)

\* ------------------------------ claims on fallbacks, absence and wording
\* the samples of a date whose temperatures are numbers or absent
Numeric(date) ==
    \A i \in Listed(date) : Low(Input[i]) # Quoted /\ High(Input[i]) # Quoted

\* C27: a sample without an explicit minimum (maximum) contributes its point
\* temperature; an absent running minimum (maximum) adopts the contribution
\* of a later sample of the date; and an entry has temp_min (temp_max) absent
\* exactly when no sample of its date contributes one, never a default.
C27_FallbackAndAbsence ==
    Aggregated =>
        \A k \in 1..Len(Entries) :
            /\ Entries[k].temp_min = None
                  <=> \A i \in Listed(Entries[k].date) : Low(Input[i]) = None
            /\ Entries[k].temp_max = None
                  <=> \A i \in Listed(Entries[k].date) : High(Input[i]) = None
            /\ Numeric(Entries[k].date)
                  => TempsOf(Entries[k]) = Extremes(Listed(Entries[k].date))

\* an entry whose maximum is the point temperature of a later sample of its
\* date, the first sample of the date having a minimum only, next to an entry
\* with no temperature at all
C27_Witness ==
    /\ Aggregated
    /\ \E k \in 1..Len(Entries) :
          \E i, j \in SamplesOf(Entries[k].date) :
              /\ i < j
              /\ Input[i].temp = None /\ Input[i].temp_max = None
              /\ Input[i].temp_min # None
              /\ Input[j].temp # None /\ Input[j].temp_max = None
              /\ Entries[k].temp_max = Some(OneDecimal(Input[j].temp[1]))
    /\ \E k \in 1..Len(Entries) :
          Entries[k].temp_min = None /\ Entries[k].temp_max = None

\* the text with its first letter in upper case and the rest as it is
UpperFirst(text) ==
    IF text = <<>> THEN text
    ELSE <<UpperChar(text[1])>> \o SubSeq(text, 2, Len(text))

\* C28: the weather of every emitted entry is the first-seen description of
\* its date with the first letter upper-cased and every other character
\* unchanged.
C28_RestOfDescriptionUnchanged ==
    Aggregated =>
        \A k \in 1..Len(Entries) :
            \A i \in Listed(Entries[k].date) :
                (i = Least(Listed(Entries[k].date)) /\ Described(Input[i]))
                    => Entries[k].weather = UpperFirst(Input[i].weather[1][1])

\* C29: when every sample that has both contributions has its minimum at most
\* its maximum, every emitted entry that has both temp_min and temp_max has
\* temp_min at most temp_max.
C29_MinAtMostMax ==
    (/\ Aggregated
     /\ \A i \in 1..Len(Input) :
           (/\ Low(Input[i]) # None /\ IsNumber(Low(Input[i]))
            /\ High(Input[i]) # None /\ IsNumber(High(Input[i])))
              => Low(Input[i])[1] <= High(Input[i])[1])
    => \A k \in 1..Len(Entries) :
          (Entries[k].temp_min # None /\ Entries[k].temp_max # None)
              => Entries[k].temp_min[1] <= Entries[k].temp_max[1]

\* ------------------------------------------- claims on the errors' context
\* C26: every error of get_coordinates and get_weather_data carries its
\* context as fields: an APIRequestError for a non-2xx response the status
\* code of that response and the endpoint, a ServiceUnavailableError the
\* status code, an APIRequestError for a transport failure the endpoint and
\* the cause, a RateLimitError the seconds to wait.
C26_ErrorsCarryContext ==
    (pc = "done" /\ ClientCall /\ ~outcome.ok) =>
        /\ (FailedWith("APIRequestError") /\ EndedWithResponse /\ ~Is2xx(reply.status))
              => /\ outcome.error.status_code = Some(reply.status)
                 /\ outcome.error.endpoint = Some(request.url)
        /\ FailedWith("ServiceUnavailableError")
              => outcome.error.status_code = Some(reply.status)
        /\ (FailedWith("APIRequestError") /\ reply.exc # "")
              => /\ outcome.error.endpoint = Some(request.url)
                 /\ outcome.error.original_error # None
        /\ FailedWith("RateLimitError") => outcome.error.retry_after # None

\* ------------------------------------------- claims on the credential
\* the word occurs in the text
Occurs(word, text) ==
    \E i \in 1..(Len(text) - Len(word) + 1) : SubSeq(text, i, i + Len(word) - 1) = word

\* the record shows more of the key than its first 8 characters
ShowsBeyondPrefix(record, key) ==
    /\ Len(key) > 8
    /\ \E j \in 1..Len(record.args) : Occurs(SubSeq(key, 1, 9), record.args[j])

\* C30: whatever the client has been asked to do, no log record, no error
\* message and no repr of the client shows more of the credential than its
\* first 8 characters.
C30_CredentialNeverLogged ==
    client # None =>
        /\ \A i \in 1..Len(log) : ~ShowsBeyondPrefix(log[i], client[1].api_key)
        /\ ~ShowsBeyondPrefix(Repr(client[1]), client[1].api_key)
        /\ (pc = "done" /\ ~outcome.ok) =>
              \A i \in 1..Len(RaisedLog(outcome.error)) :
                  ~ShowsBeyondPrefix(RaisedLog(outcome.error)[i], client[1].api_key)

\* ------------------------------------------------ claims on the formatter
FormatterCalled(op) == formatted.op = op /\ formatted.result.ok

Shown1 == formatted.result.value[1]

\* C * 9/5 + 32, in hundredths of a degree
ToFahrenheit(c) == RoundRatio1(c * 9 + 16000, 5)

\* the temperature to show for the Celsius value c of the provider
Converted(c) ==
    IF formatter[1].units = "imperial" THEN ToFahrenheit(c) ELSE OneDecimal(c)

\* C23: with units = imperial every temperature shown, labelled with °F, is
\* the Fahrenheit conversion of the Celsius value of the provider, for the
\* current conditions and for each forecast day; with units = metric the
\* Celsius value is shown unchanged with the label °C.
C23_ImperialShowsFahrenheit ==
    (formatter # None /\ formatter[1].units \in UnitSystems) =>
        /\ (FormatterCalled("format_current_weather") /\ Shown1.kind = "Current"
              /\ Shown1.temp # None)
           => /\ Shown1.temp_unit =
                    IF formatter[1].units = "imperial" THEN Fahrenheit ELSE Celsius
              /\ Shown1.temp = Some(Converted(formatted.args[1].temp[1]))
        /\ FormatterCalled("format_forecast")
           => \A k \in 1..Len(Shown1.lines) :
                 /\ Shown1.lines[k].temp_unit =
                       IF formatter[1].units = "imperial" THEN Fahrenheit ELSE Celsius
                 /\ Shown1.lines[k].temp_range =
                       [i \in 1..Len(TempRange(formatted.args[1][k])) |->
                           Converted(TempRange(formatted.args[1][k])[i])]

\* C24: the unit system of a formatter is always 'metric' or 'imperial':
\* constructing one with another value fails with ValueError, set_units with
\* another value fails with ValueError and leaves units and temp_unit as they
\* were, and temp_unit is '°C' exactly when units is 'metric' and '°F'
\* exactly when units is 'imperial'.
C24_UnitsAlwaysValid ==
    /\ formatter # None
          => /\ formatter[1].units \in UnitSystems
             /\ formatter[1].temp_unit = Celsius <=> formatter[1].units = "metric"
             /\ formatter[1].temp_unit = Fahrenheit <=> formatter[1].units = "imperial"
    /\ (formatted.op \in {"__init__", "set_units"} /\ formatted.args[1] \notin UnitSystems)
          => /\ ~formatted.result.ok
             /\ formatted.result.error.cls = "ValueError"
             /\ formatter = formatted.before

\* C25: format_current_weather never raises, whatever fields the mapping
\* lacks, and for the empty mapping it returns a text that tells of data that
\* are incomplete or cannot be displayed, not a 'Current: ...' line.
C25_EmptyMappingNotDisplayed ==
    formatted.op = "format_current_weather" =>
        /\ formatted.result.ok
        /\ formatted.args[1] = EmptyMapping
              => Shown1.kind \in {"Weather data incomplete - missing: 0",
                                  "Unable to display current weather"}

\* ------------------------------------------- claims on the command line
Ended == run.pc = "exit"

\* the kinds of the taxonomy a call of the client can fail with
ClientFailures ==
    {"CityNotFoundError", "InvalidAPIKeyError", "APIRequestError", "RateLimitError",
     "ServiceUnavailableError"}

Echoed(kind) == {i \in 1..Len(run.echoed) : run.echoed[i].kind = kind}

\* the texts of an error line that hold the message of e, as str(e) gives it
Telling(e) ==
    {"Error: [" \o e.error_code \o "] " \o e.message,
     "Error: An unexpected error occurred: [" \o e.error_code \o "] " \o e.message}

\* C21: a run in which the client fails with an error of the taxonomy, or
\* which the user interrupts, echoes a message that holds the error's own
\* message (or the cancellation notice), echoes no report and ends with exit
\* code 1; get_weather_data is called only after get_coordinates has returned
\* coordinates; and exit code 0 occurs only when both calls succeeded and the
\* report was echoed.
C21_FailuresEndTheRun ==
    /\ (Ended /\ run.failure # None /\ run.failure[1].cls \in ClientFailures)
          => /\ \E i \in Echoed("error") : run.echoed[i].text \in Telling(run.failure[1])
             /\ Echoed("report") = {}
             /\ run.exit_code = Some(1)
    /\ (Ended /\ run.interrupted)
          => /\ Echoed("cancelled") # {}
             /\ Echoed("report") = {}
             /\ run.exit_code = Some(1)
    /\ (\E i \in 1..Len(run.called) : run.called[i] = "get_weather_data")
          => /\ run.coordinates # None
             /\ \E j \in 1..Len(run.called) : run.called[j] = "get_coordinates"
    /\ run.exit_code = Some(0)
          => /\ run.coordinates # None
             /\ run.weather_data # None
             /\ run.failure = None /\ ~run.interrupted
             /\ Echoed("report") # {}

\* a run has ended on a RateLimitError of get_weather_data (a 429 answer that a
\* patched session hands back), for which main() has no except clause of its
\* own
C21_Witness ==
    /\ Ended
    /\ run.failure # None
    /\ run.failure[1].cls = "RateLimitError"
    /\ run.called = <<"WeatherAPI", "get_coordinates", "get_weather_data">>
    /\ run.exit_code = Some(1)

\* neither --api-key nor OPENWEATHER_API_KEY gives a credential
NoCredential == Available(run.options.api_key, environ) \in {None, Some(<<>>)}

====
